---- MODULE Spec2Model ----
(***************************************************************************)
(* The Lambda-to-Lambda invocation layer of sociallens: the typed adapters *)
(* of the two DataServiceLambdaClient classes (summarizer service and      *)
(* reddit service), the substrate invoke they dispatch, and the callers    *)
(* that translate their results (PostRepository.save_posts and the         *)
(* fetch_and_process_posts route), followed by the components around it:   *)
(* RedditClient's retry loop, SummarizerService, PublisherService, the     *)
(* summarizer's background handler, PostProcessorService with PostFilter,  *)
(* and lambda_handler_wrapper.  Every component has its own variables and  *)
(* its own specification; the actions of one leave the others unchanged.   *)
(*                                                                         *)
(* Python values are tagged tuples: <<"None">>, <<"StorySummary", rec>>,   *)
(* <<"list", seq>>, <<"dict", rec>>, <<"datetime", n>>.  A Python str is   *)
(* <<"str", pieces>>: a piece is <<"chars", s>> for literal text,          *)
(* <<"json", doc>> for the text json.dumps produces and <<"iso", n>> for   *)
(* the text datetime.isoformat produces; an f-string is the concatenation  *)
(* of its pieces.  What a function hands to its caller is                  *)
(* <<"return", value>> or <<"raise", type, message>>.                      *)
(***************************************************************************)
EXTENDS Integers, Sequences, FiniteSets, TLC

\* Record constructors list their fields in the order TLC keeps them (the
\* order in which the names first occur in the module), so that no record is
\* ever re-sorted while two workers read it.

\* ------------------------------------------------------------------ bounds
NumTasks == 1
MaxPosts == 2
MaxCalls == 2

MaxArticles == 2

MaxPublishCalls == 3

MaxAttempts == 3

MaxRecords == 2

Tasks == 1..NumTasks

\* ------------------------------------------------------- python primitives
None == <<"None">>

Str(s) == <<"str", << <<"chars", s>> >> >>

\* a + b on str, and the pieces of an f-string put together
Concat(a, b) == <<"str", a[2] \o b[2]>>

JsonDumps(doc) == <<"str", << <<"json", doc>> >> >>

IsJsonText(text) == Len(text[2]) = 1 /\ text[2][1][1] = "json"

JsonLoads(text) == text[2][1][2]

IsoFormat(dt) == <<"str", << <<"iso", dt[2]>> >> >>

IsIsoText(text) == Len(text[2]) = 1 /\ text[2][1][1] = "iso"

FromIsoFormat(text) == <<"datetime", text[2][1][2]>>

Object(rec) == <<"object", rec>>

Array(seq) == <<"array", seq>>

Return(v) == <<"return", v>>

Raise(type, msg) == <<"raise", type, msg>>

IsRaise(outcome) == outcome[1] = "raise"

\* dict.get(key, default) on a response payload
GetBody(response_payload, default) ==
    IF "body" \in DOMAIN response_payload THEN response_payload.body ELSE default

\* str(e) of an exception carried as <<"exception", type, message>>
StrOfException(e) == e[3]

\* str(n) of an int, and an int formatted into an f-string
StrOfInt(n) == <<"str", << <<"int", n>> >> >>

\* the characters of a text: adjacent literal pieces read as one run
RECURSIVE Flat(_)
Flat(pieces) ==
    IF Len(pieces) <= 1 THEN pieces
    ELSE LET rest == Flat(Tail(pieces)) IN
         IF Head(pieces)[1] = "chars" /\ rest[1][1] = "chars"
         THEN << <<"chars", Head(pieces)[2] \o rest[1][2]>> >> \o Tail(rest)
         ELSE <<Head(pieces)>> \o rest

\* a == b on str
SameText(a, b) == Flat(a[2]) = Flat(b[2])

\* --------------------------------------------------------------- operations
SummarizerOps ==
    {"create_story_summary", "get_story_summary_by_id",
     "get_story_summary_by_post_id", "health_check"}

RedditOps == {"save_reddit_posts", "get_reddit_posts"}

Ops == SummarizerOps \cup RedditOps

ReadOps == {"get_story_summary_by_id", "get_story_summary_by_post_id", "get_reddit_posts"}

SummaryReadOps == {"get_story_summary_by_id", "get_story_summary_by_post_id"}

\* ------------------------------------------------------------ domain models
\* the clock readings datetime.utcnow can give
Times == {<<"datetime", 1>>, <<"datetime", 2>>}

StorySummaryRequired ==
    {"post_id", "title", "summary", "generated_story", "model_used", "id"}

\* StorySummary(**body): body is what json.loads gave; now is datetime.utcnow()
StorySummaryDropsMetadata(body, now) ==
    IF body[1] # "object" THEN Raise("TypeError", Str("argument after ** must be a mapping"))
    ELSE IF ~(StorySummaryRequired \subseteq DOMAIN body[2])
    THEN Raise("ValidationError", Str("field required"))
    ELSE Return(<<"StorySummary",
           [id |-> body[2].id, post_id |-> body[2].post_id, title |-> body[2].title,
            summary |-> body[2].summary, generated_story |-> body[2].generated_story,
            model_used |-> body[2].model_used, generation_metadata |-> None,
            created_at |-> now]>>)

StorySummary(body, now) ==
    IF body[1] # "object" THEN Raise("TypeError", Str("argument after ** must be a mapping"))
    ELSE IF ~(StorySummaryRequired \subseteq DOMAIN body[2])
    THEN Raise("ValidationError", Str("field required"))
    ELSE IF "created_at" \in DOMAIN body[2] /\ ~IsIsoText(body[2].created_at)
    THEN Raise("ValidationError", Str("invalid datetime format"))
    ELSE Return(<<"StorySummary",
           [id |-> body[2].id, post_id |-> body[2].post_id, title |-> body[2].title,
            summary |-> body[2].summary, generated_story |-> body[2].generated_story,
            model_used |-> body[2].model_used,
            generation_metadata |->
                IF "generation_metadata" \in DOMAIN body[2]
                THEN body[2].generation_metadata ELSE None,
            created_at |->
                IF "created_at" \in DOMAIN body[2]
                THEN FromIsoFormat(body[2].created_at) ELSE now]>>)

FilteredPostRequired ==
    {"subreddit", "title", "url", "author", "score", "comments",
     "created_at", "normalized_score"}

\* FilteredPost(**post_data) after created_at was replaced by datetime.fromisoformat
FilteredPost(post_data) ==
    <<"FilteredPost",
      [title |-> post_data.title,
       created_at |-> FromIsoFormat(post_data.created_at),
       source |-> IF "source" \in DOMAIN post_data THEN post_data.source ELSE Str("reddit"),
       subreddit |-> post_data.subreddit,
       url |-> post_data.url, author |-> post_data.author, score |-> post_data.score,
       comments |-> post_data.comments, normalized_score |-> post_data.normalized_score,
       post_text |-> IF "post_text" \in DOMAIN post_data THEN post_data.post_text ELSE Str("")]>>

\* the loop of get_reddit_posts over the decoded body
RECURSIVE DecodePosts(_)
DecodePosts(posts_data) ==
    IF posts_data = <<>> THEN Return(<<>>)
    ELSE LET post_data == Head(posts_data) IN
         IF ~("created_at" \in DOMAIN post_data)
         THEN Raise("KeyError", Str("created_at"))
         ELSE IF ~IsIsoText(post_data.created_at)
         THEN Raise("ValueError", Str("Invalid isoformat string"))
         ELSE IF ~(FilteredPostRequired \subseteq DOMAIN post_data)
         THEN Raise("ValidationError", Str("field required"))
         ELSE LET rest == DecodePosts(Tail(posts_data)) IN
              IF IsRaise(rest) THEN rest
              ELSE Return(<<FilteredPost(post_data)>> \o rest[2])

\* ----------------------------------------------------------------- adapters
\* What ends the wait of an adapter on the substrate invoke:
\*   <<"response", response_payload>>   the invoke returned the target's answer
\*   <<"timeout">>                      asyncio.wait_for raised TimeoutError
\*   <<"exception", type, message>>     the invoke itself raised
\* Each adapter below is the part of the method after the invoke, with its
\* except clauses; now is the reading datetime.utcnow would give.

\* json.loads(response_payload.get('body', default)) followed by StorySummary(**body)
DecodeSummary(response_payload, now) ==
    LET text == GetBody(response_payload, JsonDumps(Object(<<>>))) IN
    IF ~IsJsonText(text) THEN Raise("JSONDecodeError", Str("Expecting value"))
    ELSE StorySummary(JsonLoads(text), now)

create_story_summary(e, now) ==
    CASE e[1] = "timeout" ->
            Raise("Exception", Str("Timeout calling Data Service Lambda"))
      [] e[1] = "exception" -> Raise(e[2], e[3])
      [] e[1] = "response" ->
            IF e[2].statusCode = 200
            THEN DecodeSummary(e[2], now)
            ELSE Raise("Exception",
                       Concat(Str("Failed to create story summary: "),
                              GetBody(e[2], Str("Unknown error"))))

get_story_summary_raising_on_404(e, now) ==
    CASE e[1] = "timeout" -> Return(None)
      [] e[1] = "exception" -> Return(None)
      [] e[1] = "response" ->
            IF e[2].statusCode = 200
            THEN LET decoded == DecodeSummary(e[2], now) IN
                 IF IsRaise(decoded) THEN Return(None) ELSE decoded
            ELSE IF e[2].statusCode = 404
            THEN Raise("Exception", Str("Not found"))
            ELSE Return(None)

\* get_story_summary_by_id and get_story_summary_by_post_id handle the answer alike
get_story_summary(e, now) ==
    CASE e[1] = "timeout" -> Return(None)
      [] e[1] = "exception" -> Return(None)
      [] e[1] = "response" ->
            IF e[2].statusCode = 200
            THEN LET decoded == DecodeSummary(e[2], now) IN
                 IF IsRaise(decoded) THEN Return(None) ELSE decoded
            ELSE IF e[2].statusCode = 404
            THEN Return(None)
            ELSE Return(None)

health_check(e) ==
    CASE e[1] = "timeout" ->
            Return(<<"dict", [success |-> FALSE,
                              error |-> Str("Timeout calling Data Service Lambda")]>>)
      [] e[1] = "exception" ->
            Return(<<"dict", [success |-> FALSE, error |-> StrOfException(e)]>>)
      [] e[1] = "response" ->
            IF e[2].statusCode = 200
            THEN Return(<<"dict", [success |-> TRUE,
                                   message |-> Str("Data Service Lambda is healthy")]>>)
            ELSE Return(<<"dict", [success |-> FALSE,
                                   error |-> GetBody(e[2], Str("Unknown error"))]>>)

save_reddit_posts(e) ==
    CASE e[1] = "exception" ->
            Return(<<"dict", [success |-> FALSE, error |-> StrOfException(e)]>>)
      [] e[1] = "response" ->
            IF e[2].statusCode = 200
            THEN Return(<<"dict", [success |-> TRUE, message |-> GetBody(e[2], Str(""))]>>)
            ELSE Return(<<"dict", [success |-> FALSE,
                                   error |-> GetBody(e[2], Str("Unknown error"))]>>)

get_reddit_posts(e) ==
    CASE e[1] = "exception" -> Return(<<"list", <<>>>>)
      [] e[1] = "response" ->
            IF e[2].statusCode = 200
            THEN LET text == GetBody(e[2], JsonDumps(Array(<<>>))) IN
                 IF ~IsJsonText(text) THEN Return(<<"list", <<>>>>)
                 ELSE IF JsonLoads(text)[1] # "array" THEN Return(<<"list", <<>>>>)
                 ELSE LET posts == DecodePosts(JsonLoads(text)[2]) IN
                      IF IsRaise(posts) THEN Return(<<"list", <<>>>>)
                      ELSE Return(<<"list", posts[2]>>)
            ELSE Return(<<"list", <<>>>>)

\* the adapter op applied to what ended its wait
Adapter(o, e, now) ==
    CASE o = "create_story_summary" -> create_story_summary(e, now)
      [] o \in SummaryReadOps -> get_story_summary(e, now)
      [] o = "health_check" -> health_check(e)
      [] o = "save_reddit_posts" -> save_reddit_posts(e)
      [] o = "get_reddit_posts" -> get_reddit_posts(e)

\* asyncio.wait_for(..., timeout=self.timeout_seconds) wraps the invoke
HasCallerTimeout(o) == o \in SummarizerOps

\* --------------------------------------------------- inputs and stub target
PostIds == {7, 42}

SummaryIds == {101, 102}

\* StorySummaryCreate values the callers pass
SummaryInputs ==
    {[post_id |-> 7, title |-> Str("t"), summary |-> Str("s"),
      generated_story |-> Str("g"), model_used |-> Str("m"),
      generation_metadata |-> None],
     [post_id |-> 42, title |-> Str("t2"), summary |-> Str("s2"),
      generated_story |-> Str("g2"), model_used |-> Str("m"),
      generation_metadata |-> Object([subreddit |-> Str("python")])],
     [post_id |-> 7, title |-> Str("t"), summary |-> Str("s"),
      generated_story |-> Str("g"), model_used |-> Str("m"),
      generation_metadata |-> Object([generated_at |-> <<"datetime", 1>>])]}

\* the i-th post of a batch, as the data service stores and lists it
PostDoc(i) ==
    [title |-> Str("p"), created_at |-> IsoFormat(<<"datetime", 1>>),
     source |-> Str("reddit"), subreddit |-> Str("python"),
     url |-> Str("https://reddit.com/r/python/1"), author |-> Str("u"),
     score |-> i, comments |-> 0, normalized_score |-> i, post_text |-> Str("")]

Inputs(o) ==
    CASE o = "create_story_summary" -> {<<"summary", s>> : s \in SummaryInputs}
      [] o = "get_story_summary_by_id" ->
            {<<"id", n>> : n \in SummaryIds} \cup {<<"missing">>, <<"undeclared">>}
      [] o = "get_story_summary_by_post_id" ->
            {<<"id", n>> : n \in PostIds} \cup {<<"missing">>, <<"undeclared">>}
      [] o = "health_check" -> {<<"none">>}
      [] o = "save_reddit_posts" ->
            {<<"posts", [i \in 1..n |-> FilteredPost(PostDoc(i))]>> : n \in 0..MaxPosts}
      [] o = "get_reddit_posts" ->
            {<<"query", [subreddit |-> sr, limit |-> 10]>> : sr \in {None, Str("python")}}

\* the record a data-service stub answers with for call (o, a)
StubSummary(o, a) ==
    CASE o = "create_story_summary" ->
            [id |-> 101, post_id |-> a[2].post_id, title |-> a[2].title,
             summary |-> a[2].summary, generated_story |-> a[2].generated_story,
             model_used |-> a[2].model_used,
             generation_metadata |-> a[2].generation_metadata,
             created_at |-> <<"datetime", 1>>]
      [] o = "get_story_summary_by_id" ->
            [id |-> a[2], post_id |-> 7, title |-> Str("t"), summary |-> Str("s"),
             generated_story |-> Str("g"), model_used |-> Str("m"),
             generation_metadata |-> Object([subreddit |-> Str("python")]),
             created_at |-> <<"datetime", 1>>]
      [] o = "get_story_summary_by_post_id" ->
            [id |-> 101, post_id |-> a[2], title |-> Str("t"), summary |-> Str("s"),
             generated_story |-> Str("g"), model_used |-> Str("m"),
             generation_metadata |-> None,
             created_at |-> <<"datetime", 1>>]

\* the body the data service sends for a StorySummary: datetimes as ISO text
JsonOfSummary(s) ==
    JsonDumps(Object(
        [id |-> s.id, post_id |-> s.post_id, title |-> s.title, summary |-> s.summary,
         generated_story |-> s.generated_story, model_used |-> s.model_used,
         generation_metadata |-> s.generation_metadata,
         created_at |-> IsoFormat(s.created_at)]))

ErrorBody(m) == JsonDumps(Object([error |-> Str(m)]))

\* the bodies of a well-formed 2xx answer to call (o, a)
ValidBodies(o, a) ==
    CASE o \in {"create_story_summary"} \cup SummaryReadOps ->
            {JsonOfSummary(StubSummary(o, a))}
      [] o = "health_check" -> {JsonDumps(Object([status |-> Str("healthy")]))}
      [] o = "save_reddit_posts" ->
            {JsonDumps(Object([message |-> Str("Successfully saved posts")]))}
      [] o = "get_reddit_posts" ->
            {JsonDumps(Array(<<>>)), JsonDumps(Array(<<PostDoc(1)>>))}

\* the response payloads a target stub may answer call (o, a) with
Responses(o, a) ==
    {[body |-> b, statusCode |-> sc] : sc \in {200, 201}, b \in ValidBodies(o, a)}
    \cup {[body |-> Str("<html>"), statusCode |-> 200],
          [body |-> JsonDumps(Object([status |-> Str("healthy")])), statusCode |-> 200],
          [statusCode |-> 200],
          [statusCode |-> 404],
          [body |-> ErrorBody("bad"), statusCode |-> 400],
          [body |-> ErrorBody("boom"), statusCode |-> 500]}

\* the exceptions the boto3 invoke may raise instead of returning
InvokeExceptions ==
    {<<"exception", "EndpointConnectionError", Str("Could not connect to the endpoint URL")>>,
     <<"exception", "ReadTimeoutError", Str("Read timeout on endpoint URL")>>}

\* ---------------------------------------------------------------- envelopes
\* the synthetic API Gateway event every adapter writes out as a dict literal
Envelope(method, resource, path, path_params, query_params, body, user_agent) ==
    <<"dict",
      [body |-> body,
       resource |-> resource,
       path |-> path,
       httpMethod |-> Str(method),
       headers |-> <<"dict", [Accept |-> Str("application/json"),
                              ContentType |-> Str("application/json")]>>,
       queryStringParameters |-> query_params,
       pathParameters |-> path_params,
       requestContext |->
            <<"dict", [path |-> path, httpMethod |-> Str(method),
                       resourcePath |-> resource,
                       requestTime |-> Str("01/Jan/2024:00:00:00 +0000"),
                       requestId |-> Str("test"),
                       userAgent |-> Str(user_agent)]>>,
       isBase64Encoded |-> FALSE]>>

\* the text prefix{name}: a path template whose placeholder is a piece of its own
Template(prefix, name) == <<"str", << <<"chars", prefix>>, <<"param", name>> >> >>

\* the placeholder names of a path template
Placeholders(template) ==
    {template[2][i][2] : i \in {j \in DOMAIN template[2] : template[2][j][1] = "param"}}

\* a path template with each placeholder replaced by the text params gives it
RECURSIVE Substitute(_, _)
Substitute(pieces, params) ==
    IF Len(pieces) = 0 THEN <<>>
    ELSE (IF Head(pieces)[1] = "param"
          THEN params[Head(pieces)[2]][2] ELSE <<Head(pieces)>>)
         \o Substitute(Tail(pieces), params)

\* the routes of the data service: data.router under the prefix /api/v1, and
\* the health route of the application
Routes ==
    {[method |-> "POST", template |-> Concat(Str("/api/v1"), Str("/reddit/posts"))],
     [method |-> "GET", template |-> Concat(Str("/api/v1"), Str("/reddit/posts"))],
     [method |-> "POST", template |-> Concat(Str("/api/v1"), Str("/story-summaries"))],
     [method |-> "GET",
      template |-> Concat(Str("/api/v1"), Template("/story-summaries/", "summary_id"))],
     [method |-> "GET",
      template |-> Concat(Str("/api/v1"), Template("/story-summaries/by-post/", "post_id"))],
     [method |-> "POST", template |-> Concat(Str("/api/v1"), Str("/published-articles"))],
     [method |-> "PUT",
      template |-> Concat(Str("/api/v1"), Template("/published-articles/", "article_id"))],
     [method |-> "GET", template |-> Str("/health")]}

\* the route of the data-service handler that serves adapter operation o
RouteOf(o) ==
    CASE o = "save_reddit_posts" ->
            [method |-> "POST", template |-> Concat(Str("/api/v1"), Str("/reddit/posts"))]
      [] o = "get_reddit_posts" ->
            [method |-> "GET", template |-> Concat(Str("/api/v1"), Str("/reddit/posts"))]
      [] o = "create_story_summary" ->
            [method |-> "POST", template |-> Concat(Str("/api/v1"), Str("/story-summaries"))]
      [] o = "get_story_summary_by_id" ->
            [method |-> "GET",
             template |-> Concat(Str("/api/v1"), Template("/story-summaries/", "summary_id"))]
      [] o = "get_story_summary_by_post_id" ->
            [method |-> "GET",
             template |-> Concat(Str("/api/v1"),
                                 Template("/story-summaries/by-post/", "post_id"))]
      [] o = "health_check" -> [method |-> "GET", template |-> Str("/health")]

\* the router matches the whole path of the event against a route: literal
\* text against literal text, an int placeholder against the digits of an int
RouteMatches(route, http_method, path) ==
    LET want == Flat(route.template[2])
        have == Flat(path[2])
    IN  /\ SameText(Str(route.method), http_method)
        /\ Len(want) = Len(have)
        /\ \A i \in DOMAIN want :
                IF want[i][1] = "param" THEN have[i][1] = "int" ELSE want[i] = have[i]

\* post_dict of save_reddit_posts for one FilteredPost without top_comments
PostDict(post) ==
    [title |-> post[2].title, created_at |-> IsoFormat(post[2].created_at),
     source |-> post[2].source, subreddit |-> post[2].subreddit,
     url |-> post[2].url, author |-> post[2].author, score |-> post[2].score,
     comments |-> post[2].comments, normalized_score |-> post[2].normalized_score,
     post_text |-> post[2].post_text]

\* json.dumps accepts None, str, numbers and dicts of them, not a datetime
IsSerializable(value) ==
    IF value = None THEN TRUE
    ELSE \A f \in DOMAIN value[2] : value[2][f][1] # "datetime"

\* Python binds the arguments to the signature before the method body runs:
\* <<"missing">> is a call without the parameter the signature declares,
\* <<"undeclared">> a call with a keyword the signature does not declare
Binds(a) == a[1] \notin {"missing", "undeclared"}

BuildPayloadMisnamingParameter(o, a) ==
    IF o \in SummaryReadOps
    THEN Return(Envelope("GET", Template("/api/v1/story-summaries/", "summary_id"),
                         Concat(Str("/api/v1/story-summaries/"), StrOfInt(a[2])),
                         <<"dict", [post_id |-> StrOfInt(a[2])]>>, None,
                         None, "summarizer-lambda"))
    ELSE Return(Envelope("GET", Str("/health"), Str("/health"), None, None,
                         None, "summarizer-lambda"))

\* the statements of adapter o from the top of its try block to the payload
\* literal: the payload, or the exception that building it raises
BuildPayload(o, a) ==
    CASE o = "create_story_summary" ->
            IF ~IsSerializable(a[2].generation_metadata)
            THEN Raise("TypeError", Str("Object of type datetime is not JSON serializable"))
            ELSE Return(Envelope("POST", Str("/api/v1/story-summaries"),
                                 Str("/api/v1/story-summaries"), None, None,
                                 JsonDumps(Object(a[2])), "summarizer-lambda"))
      [] o = "get_story_summary_by_id" ->
            Return(Envelope("GET", Template("/api/v1/story-summaries/", "summary_id"),
                            Concat(Str("/api/v1/story-summaries/"), StrOfInt(a[2])),
                            <<"dict", [summary_id |-> StrOfInt(a[2])]>>, None,
                            None, "summarizer-lambda"))
      [] o = "get_story_summary_by_post_id" ->
            Return(Envelope("GET", Template("/api/v1/story-summaries/by-post/", "post_id"),
                            Concat(Str("/api/v1/story-summaries/by-post/"), StrOfInt(a[2])),
                            <<"dict", [post_id |-> StrOfInt(a[2])]>>, None,
                            None, "summarizer-lambda"))
      [] o = "health_check" ->
            Return(Envelope("GET", Str("/health"), Str("/health"), None, None,
                            None, "summarizer-lambda"))
      [] o = "save_reddit_posts" ->
            Return(Envelope("POST", Str("/api/v1/reddit/posts"),
                            Str("/api/v1/reddit/posts"), None, None,
                            JsonDumps(Object(
                                [posts |-> Array([i \in DOMAIN a[2] |-> PostDict(a[2][i])])])),
                            "reddit-fetcher-lambda"))
      [] o = "get_reddit_posts" ->
            LET limit_only == Concat(Str("?limit="), StrOfInt(a[2].limit))
                query_params ==
                    IF a[2].subreddit # None
                    THEN Concat(limit_only, Concat(Str("&subreddit="), a[2].subreddit))
                    ELSE limit_only
            IN  Return(Envelope("GET", Str("/api/v1/reddit/posts"),
                                Concat(Str("/api/v1/reddit/posts"), query_params), None,
                                IF a[2].subreddit # None
                                THEN <<"dict", [subreddit |-> a[2].subreddit,
                                                limit |-> StrOfInt(a[2].limit)]>>
                                ELSE <<"dict", [limit |-> StrOfInt(a[2].limit)]>>,
                                None, "reddit-fetcher-lambda"))

\* -------------------------------------------------------------------- state
VARIABLES
    pc,         \* pc[t]: where task t's adapter call is
    op,         \* op[t]: the adapter task t called
    arg,        \* arg[t]: the input it was called with
    invokes,    \* invokes[t]: how often the call dispatched lambda_client.invoke
    substrate,  \* substrate[t]: "idle", "running" or "done": the target's side
    elapsed,    \* elapsed[t]: timeout_seconds passed while the call was waiting
    ev,         \* ev[t]: what ended the wait
    result,     \* result[t]: what the adapter handed to its caller
    payload,    \* payload[t]: the payload dict the call built
    story_summaries  \* story_summaries[p]: the rows of the table whose post_id is p

\* the state of the calls of the invocation layer
callVars == <<pc, op, arg, invokes, substrate, elapsed, ev, result, payload>>

\* the state of the invocation layer, with the data service's table
clientVars == <<callVars, story_summaries>>

\* RedditClient._make_request_with_retry
VARIABLES
    attempt,         \* the loop variable; max_retries + 1 once the loop has ended
    served,          \* what the server did on each session.get, in order
    last_exception,  \* the local last_exception
    response         \* what the method handed to its caller

redditVars == <<attempt, served, last_exception, response>>

\* SummarizerService.generate_summary and generate_summary_by_id
VARIABLES
    gen_pc,            \* gen_pc[g]: where call g of generate_summary is
    gen_post,          \* gen_post[g]: its argument post_id
    rows_at_lookup,    \* rows_at_lookup[g]: the rows of its post the table held
                       \*   when the data service served its lookup
    existing_summary,  \* existing_summary[g]: the local existing_summary
    saved_summary      \* saved_summary[g]: what the call handed to its caller

summarizerVars == <<gen_pc, gen_post, rows_at_lookup, existing_summary, saved_summary>>

\* PublisherService with its PublisherRepository and WordPressClient
VARIABLES
    published_articles,  \* the rows of the table published_articles, by id
    publishing_errors,   \* publishing_errors[a]: the rows of publishing_errors of article a
    wp_posts,            \* wp_posts[a]: the posts WordPress created for article a
    publish_calls,       \* the calls of the service made so far
    publish_call,        \* the last call: its arguments and the rows it found
    publish_trace,       \* the calls the last call made, each with its article and how it ended
    publish_result       \* what the last call handed to its caller

publisherVars == <<published_articles, publishing_errors, wp_posts, publish_calls,
                   publish_call, publish_trace, publish_result>>

\* the summarizer's background_processor.lambda_handler
VARIABLES
    sqs_records,       \* the Records of the event the handler was invoked with
    handler_trace,     \* per record the loop reached: what processing it ended
                       \*   with, and whether the data service committed its row
    handler_response   \* the dict the handler returned

backgroundVars == <<sqs_records, handler_trace, handler_response>>

\* PostProcessorService.fetch_and_process_posts of the reddit service
VARIABLES
    fetched_posts,     \* what FetcherService.fetch_posts handed to the call
    saved_posts,       \* the lists PostRepository.save_posts was called with
    processed_posts    \* what fetch_and_process_posts returned or raised

processorVars == <<fetched_posts, saved_posts, processed_posts>>

\* the handler lambda_handler_wrapper produces
VARIABLES
    wrapper_event,     \* the event and the context the wrapper was invoked with
    handler_outcome,   \* what the wrapped handler did, if the wrapper reached it
    wrapper_outcome    \* what the wrapper returned or raised

wrapperVars == <<wrapper_event, handler_outcome, wrapper_outcome>>

\* the components other than the invocation layer
otherVars == <<redditVars, summarizerVars, publisherVars, backgroundVars,
               processorVars, wrapperVars>>

vars == <<clientVars, otherVars>>

NoEvent == <<"none">>

NoResult == <<"pending">>

NoPayload == <<"unbuilt">>

\* the exits of an adapter method
Terminal == {"Succeeded", "Absent", "Errored", "TimedOut", "Failed"}

\* the exit the adapter o takes when e ends its wait: the return of the 200
\* branch, the return of the 404 branch, the else branch, the
\* except asyncio.TimeoutError clause or the except Exception clause
Exit(o, e, now) ==
    CASE e[1] = "timeout" -> "TimedOut"
      [] e[1] = "exception" -> "Failed"
      [] e[1] = "response" ->
            IF e[2].statusCode = 200
            THEN CASE o \in {"create_story_summary"} \cup SummaryReadOps ->
                        IF IsRaise(DecodeSummary(e[2], now)) THEN "Failed" ELSE "Succeeded"
                   [] o = "get_reddit_posts" ->
                        LET text == GetBody(e[2], JsonDumps(Array(<<>>))) IN
                        IF IsJsonText(text) /\ JsonLoads(text)[1] = "array"
                           /\ ~IsRaise(DecodePosts(JsonLoads(text)[2]))
                        THEN "Succeeded" ELSE "Failed"
                   [] OTHER -> "Succeeded"
            ELSE IF e[2].statusCode = 404 /\ o \in SummaryReadOps THEN "Absent"
            ELSE "Errored"

\* _make_request_with_retry is entered: last_exception = None, and the loop
\* is before its first iteration
InitReddit ==
    /\ attempt = 0
    /\ served = <<>>
    /\ last_exception = None
    /\ response = NoResult

\* no call of generate_summary was made yet
InitSummarizer ==
    /\ gen_pc = [g \in 1..MaxCalls |-> "Idle"]
    /\ gen_post = [g \in 1..MaxCalls |-> 0]
    /\ rows_at_lookup = [g \in 1..MaxCalls |-> 0]
    /\ existing_summary = [g \in 1..MaxCalls |-> None]
    /\ saved_summary = [g \in 1..MaxCalls |-> NoResult]

\* the publisher's tables and WordPress are empty, and no call was made
InitPublisher ==
    /\ published_articles = <<>>
    /\ publishing_errors = <<>>
    /\ wp_posts = <<>>
    /\ publish_calls = 0
    /\ publish_call = <<"none">>
    /\ publish_trace = <<>>
    /\ publish_result = NoResult

\* the background handler was not invoked yet
InitBackground ==
    /\ sqs_records = <<>>
    /\ handler_trace = <<>>
    /\ handler_response = NoResult

\* fetch_and_process_posts was not called yet
InitProcessor ==
    /\ fetched_posts = NoResult
    /\ saved_posts = <<>>
    /\ processed_posts = NoResult

\* the wrapper was not invoked yet
InitWrapper ==
    /\ wrapper_event = <<"none">>
    /\ handler_outcome = NoResult
    /\ wrapper_outcome = NoResult

\* the components other than the invocation layer, before anything ran
InitOther ==
    /\ InitReddit /\ InitSummarizer /\ InitPublisher /\ InitBackground
    /\ InitProcessor /\ InitWrapper

\* no adapter was called yet, and the table story_summaries is empty
InitClient ==
    /\ pc = [t \in Tasks |-> "Idle"]
    /\ op = [t \in Tasks |-> "none"]
    /\ arg = [t \in Tasks |-> <<"none">>]
    /\ invokes = [t \in Tasks |-> 0]
    /\ substrate = [t \in Tasks |-> "idle"]
    /\ elapsed = [t \in Tasks |-> FALSE]
    /\ ev = [t \in Tasks |-> NoEvent]
    /\ result = [t \in Tasks |-> NoResult]
    /\ payload = [t \in Tasks |-> NoPayload]
    /\ story_summaries = [p \in PostIds |-> 0]

Init == InitOther /\ InitClient

\* a call that never reaches the invoke: Python could not bind its arguments,
\* or a statement before the invoke raised into the adapter's except clauses
Reject(t, outcome) ==
    /\ pc' = [pc EXCEPT ![t] = "Rejected"]
    /\ result' = [result EXCEPT ![t] = outcome]
    /\ UNCHANGED payload

CallStampingPayload(t, o, a) ==
    /\ pc[t] = "Idle"
    /\ op' = [op EXCEPT ![t] = o]
    /\ arg' = [arg EXCEPT ![t] = a]
    /\ IF ~Binds(a)
       THEN Reject(t, Raise("TypeError", Str("missing or unexpected argument")))
       ELSE LET built == BuildPayload(o, a) IN
            IF IsRaise(built)
            THEN Reject(t, Adapter(o, <<"exception", built[2], built[3]>>,
                                   <<"datetime", 1>>))
            ELSE /\ pc' = [pc EXCEPT ![t] = "Built"]
                 /\ payload' = [payload EXCEPT ![t] =
                        <<"dict", [built[2][2] EXCEPT !.headers = StrOfInt(t)]>>]
                 /\ UNCHANGED result
    /\ UNCHANGED <<invokes, substrate, elapsed, ev, story_summaries>>
    /\ UNCHANGED otherVars

\* a caller enters adapter o with input a; the adapter builds its payload
Call(t, o, a) ==
    /\ pc[t] = "Idle"
    /\ op' = [op EXCEPT ![t] = o]
    /\ arg' = [arg EXCEPT ![t] = a]
    /\ IF ~Binds(a)
       THEN Reject(t, Raise("TypeError", Str("missing or unexpected argument")))
       ELSE LET built == BuildPayload(o, a) IN
            IF IsRaise(built)
            THEN Reject(t, Adapter(o, <<"exception", built[2], built[3]>>,
                                   <<"datetime", 1>>))
            ELSE /\ pc' = [pc EXCEPT ![t] = "Built"]
                 /\ payload' = [payload EXCEPT ![t] = built[2]]
                 /\ UNCHANGED result
    /\ UNCHANGED <<invokes, substrate, elapsed, ev, story_summaries>>
    /\ UNCHANGED otherVars

CanDispatchAgain(t) == pc[t] \in {"Built", "Errored", "TimedOut", "Failed"}

\* the single lambda_client.invoke(...) of an adapter method
CanDispatch(t) == pc[t] = "Built"

Dispatch(t) ==
    /\ CanDispatch(t)
    /\ pc' = [pc EXCEPT ![t] = "Dispatched"]
    /\ invokes' = [invokes EXCEPT ![t] = @ + 1]
    /\ substrate' = [substrate EXCEPT ![t] = "running"]
    /\ UNCHANGED <<op, arg, elapsed, ev, result, payload, story_summaries>>
    /\ UNCHANGED otherVars

FinishWritingSharedResult(t, e, now) ==
    /\ pc' = [pc EXCEPT ![t] = Exit(op[t], e, now)]
    /\ ev' = [ev EXCEPT ![t] = e]
    /\ result' = [c \in DOMAIN result |->
                    IF c = t \/ pc[c] = "Dispatched"
                    THEN Adapter(op[t], e, now) ELSE result[c]]

\* the wait ends with e: the adapter interprets it and returns or raises
Finish(t, e, now) ==
    /\ pc' = [pc EXCEPT ![t] = Exit(op[t], e, now)]
    /\ ev' = [ev EXCEPT ![t] = e]
    /\ result' = [result EXCEPT ![t] = Adapter(op[t], e, now)]

CommitOncePerPost(a) ==
    [story_summaries EXCEPT ![a[2].post_id] = IF @ = 0 THEN 1 ELSE @]

\* DataRepository.create_story_summary: one more row for the summary's
\* post_id, whatever rows the table already holds
Commit(a) == [story_summaries EXCEPT ![a[2].post_id] = @ + 1]

\* the data service answers a create with the created record after its commit
Committed(o, a, r) ==
    /\ o = "create_story_summary"
    /\ "body" \in DOMAIN r
    /\ r.body \in ValidBodies(o, a)

\* the target answers while the adapter is still waiting
TargetReturns(t) ==
    /\ pc[t] = "Dispatched"
    /\ substrate[t] = "running"
    /\ substrate' = [substrate EXCEPT ![t] = "done"]
    /\ \E r \in Responses(op[t], arg[t]) : \E now \in Times :
            /\ Finish(t, <<"response", r>>, now)
            /\ story_summaries' =
                    IF Committed(op[t], arg[t], r) THEN Commit(arg[t]) ELSE story_summaries
    /\ UNCHANGED <<op, arg, invokes, elapsed, payload>>
    /\ UNCHANGED otherVars

\* the invoke raises: the substrate could not be reached, or gave up reading
InvokeRaises(t, e) ==
    /\ pc[t] = "Dispatched"
    /\ substrate[t] = "running"
    /\ substrate' = [substrate EXCEPT ![t] = "done"]
    /\ Finish(t, e, <<"datetime", 1>>)
    /\ UNCHANGED <<op, arg, invokes, elapsed, payload, story_summaries>>
    /\ UNCHANGED otherVars

\* timeout_seconds pass while the adapter waits: wait_for raises TimeoutError
\* in the adapters that wrap the invoke in it; the others keep waiting
TimeoutElapses(t) ==
    /\ pc[t] = "Dispatched"
    /\ ~elapsed[t]
    /\ elapsed' = [elapsed EXCEPT ![t] = TRUE]
    /\ IF HasCallerTimeout(op[t])
       THEN Finish(t, <<"timeout">>, <<"datetime", 1>>)
       ELSE UNCHANGED <<pc, ev, result>>
    /\ UNCHANGED <<op, arg, invokes, substrate, payload, story_summaries>>
    /\ UNCHANGED otherVars

\* the executor thread's invoke returns after the caller stopped waiting: the
\* target ran on, and a create it was serving committed its row or failed
LateReturn(t) ==
    /\ pc[t] = "TimedOut"
    /\ substrate[t] = "running"
    /\ substrate' = [substrate EXCEPT ![t] = "done"]
    /\ \E committed \in BOOLEAN :
            /\ committed => op[t] = "create_story_summary"
            /\ story_summaries' = IF committed THEN Commit(arg[t]) ELSE story_summaries
    /\ UNCHANGED <<pc, op, arg, invokes, elapsed, ev, result, payload>>
    /\ UNCHANGED otherVars

Next ==
    \E t \in Tasks :
        \/ \E o \in Ops : \E a \in Inputs(o) : Call(t, o, a)
        \/ Dispatch(t)
        \/ TargetReturns(t)
        \/ \E e \in InvokeExceptions : InvokeRaises(t, e)
        \/ TimeoutElapses(t)
        \/ LateReturn(t)

Spec == Init /\ [][Next]_vars

\* A built payload is dispatched by the next statement of the adapter, and the
\* wait of a dispatched call ends: the target answers, the invoke raises (the
\* substrate enforces its own execution ceiling and read timeout), or the
\* caller-side timeout elapses.
FairSpec ==
    /\ Spec
    /\ \A t \in Tasks :
            /\ WF_vars(Dispatch(t))
            /\ WF_vars(TargetReturns(t) \/ (\E e \in InvokeExceptions : InvokeRaises(t, e)))

\* ------------------------------------------------ several calls of one caller
\* the calls of the two specifications below: call c is the c-th call issued
Calls == 1..MaxCalls

InitCalls ==
    /\ InitOther
    /\ pc = [c \in Calls |-> "Idle"]
    /\ op = [c \in Calls |-> "none"]
    /\ arg = [c \in Calls |-> <<"none">>]
    /\ invokes = [c \in Calls |-> 0]
    /\ substrate = [c \in Calls |-> "idle"]
    /\ elapsed = [c \in Calls |-> FALSE]
    /\ ev = [c \in Calls |-> NoEvent]
    /\ result = [c \in Calls |-> NoResult]
    /\ payload = [c \in Calls |-> NoPayload]
    /\ story_summaries = [p \in PostIds |-> 0]

\* the caller of a create that timed out issues the same create once more
Retry(c) ==
    /\ c - 1 \in Calls
    /\ pc[c - 1] = "TimedOut"
    /\ op[c - 1] = "create_story_summary"
    /\ Call(c, op[c - 1], arg[c - 1])

\* one caller of create_story_summary that retries after a timeout
NextRetry ==
    \E c \in Calls :
        \/ c = 1 /\ \E a \in Inputs("create_story_summary") :
                        Call(c, "create_story_summary", a)
        \/ Retry(c)
        \/ Dispatch(c)
        \/ TargetReturns(c)
        \/ \E e \in InvokeExceptions : InvokeRaises(c, e)
        \/ TimeoutElapses(c)
        \/ LateReturn(c)

RetrySpec == InitCalls /\ [][NextRetry]_vars

\* the adapters that tasks call at the same time in ConcurrentSpec: one of
\* each DataServiceLambdaClient class
ConcurrentOps == {"create_story_summary", "save_reddit_posts"}

\* their inputs: every create input, and the save of a batch of MaxPosts posts
ConcurrentInputs(o) ==
    IF o = "save_reddit_posts"
    THEN {a \in Inputs(o) : Len(a[2]) = MaxPosts}
    ELSE Inputs(o)

NextConcurrent ==
    \E c \in Calls :
        \/ \E o \in ConcurrentOps : \E a \in ConcurrentInputs(o) : Call(c, o, a)
        \/ Dispatch(c)
        \/ TargetReturns(c)
        \/ \E e \in InvokeExceptions : InvokeRaises(c, e)
        \/ TimeoutElapses(c)
        \/ LateReturn(c)

ConcurrentSpec == InitCalls /\ [][NextConcurrent]_vars

\* ------------------------------------------------- callers of save_reddit_posts
\* PostRepository.save_posts given what save_reddit_posts returned: the
\* DatabaseError raised in the try block is caught by its own except clause
\* and wrapped again
save_posts(saved) ==
    IF IsRaise(saved)
    THEN Raise("DatabaseError", Concat(Str("Failed to save posts: "), saved[3]))
    ELSE IF saved[2][2].success
    THEN Return(None)
    ELSE Raise("DatabaseError",
               Concat(Str("Failed to save posts: "),
                      Concat(Str("Failed to save posts via Data Service Lambda: "),
                             saved[2][2].error)))

\* PostProcessorService.fetch_and_process_posts from the store step on, with
\* the non-empty filtered_posts it passed to save_posts
process_and_store(filtered_posts, saved) ==
    LET stored == save_posts(saved) IN
    IF IsRaise(stored) THEN stored ELSE Return(<<"list", filtered_posts>>)

\* the status the route fetch_and_process_posts answers with
route_status(processed) ==
    IF ~IsRaise(processed) THEN 200
    ELSE IF processed[2] = "RedditFetchError" THEN 502
    ELSE IF processed[2] = "FilterError" THEN 422
    ELSE 500

\* ------------------------------------------------ caller of the summary read
\* the status the summarizer route GET /summary/{post_id} answers with, given
\* what get_story_summary_by_post_id handed it: the HTTPException(404) of the
\* try block is an Exception, so the handler's own except clause catches it
get_summary(summary) ==
    LET tried ==
            IF IsRaise(summary) THEN summary
            ELSE IF summary[2] = None
            THEN Raise("HTTPException", Str("Summary not found"))
            ELSE summary
    IN  IF IsRaise(tried) THEN 500 ELSE 200

\* ------------------------------------- RedditClient._make_request_with_retry
\* self.max_retries
max_retries == 3

StatusCodes == {200, 403, 404, 429, 500, 503}

\* what one session.get does: the server answers with a status code, or the
\* call raises requests.exceptions.ConnectionError or Timeout
ServerBehaviours ==
    {<<"status", c>> : c \in StatusCodes}
        \cup {<<"raises", "ConnectionError">>, <<"raises", "Timeout">>}

\* the exception object that attempt k ends with when session.get did b and
\* the attempt reaches response.raise_for_status(), or None when it raises
\* nothing: raise_for_status raises HTTPError for every status from 400 on
RaisedInAttempt(b, k) ==
    IF b[1] = "raises" THEN Raise(b[2], <<"attempt", k, 0>>)
    ELSE IF b[2] >= 400 THEN Raise("HTTPError", <<"attempt", k, b[2]>>)
    ELSE None

\* the continue statements of the 429 branch and of the 5xx branch
Continues(b, k) ==
    /\ b[1] = "status"
    /\ \/ b[2] = 429
       \/ b[2] >= 500 /\ k < max_retries

\* raise last_exception with the value e: raising None is a TypeError
RaiseLast(e) ==
    IF e = None
    THEN Raise("TypeError", <<"exceptions must derive from BaseException", 0, 0>>)
    ELSE e

\* one iteration of the for loop, the server doing b: the try block either
\* continues, returns the response, or raises into one of the except clauses,
\* each of which stores the exception and lets the loop go on; the statement
\* after the loop raises last_exception
Get(b) ==
    /\ response = NoResult
    /\ attempt <= max_retries
    /\ served' = Append(served, b)
    /\ LET e == IF Continues(b, attempt) THEN None ELSE RaisedInAttempt(b, attempt)
           returns == ~Continues(b, attempt) /\ e = None
           last == IF e = None THEN last_exception ELSE e
       IN  /\ last_exception' = last
           /\ attempt' = IF returns THEN attempt ELSE attempt + 1
           /\ response' = IF returns THEN Return(b)
                          ELSE IF attempt = max_retries THEN RaiseLast(last)
                          ELSE NoResult
    /\ UNCHANGED <<clientVars, summarizerVars, publisherVars, backgroundVars,
                 processorVars, wrapperVars>>

NextReddit == \E b \in ServerBehaviours : Get(b)

RedditSpec == Init /\ [][NextReddit]_vars


\* ------------------------------------------ SummarizerService.generate_summary
\* the StorySummaryCreate that generate_summary builds for post p
SummaryData(p) ==
    [post_id |-> p, title |-> Str("Summary: t"), summary |-> Str("s"),
     generated_story |-> Str("g"), model_used |-> Str("m"),
     generation_metadata |-> Object([original_title |-> Str("t")])]

\* what ends the wait of get_story_summary_by_post_id(p): the data service
\* answers from its table (DataRepository.get_story_summary_by_post_id, and
\* the route's 404 when it finds no row) or with a 500, or the wait times out,
\* or the invoke raises
LookupEvents(p) ==
    {<<"response",
       IF story_summaries[p] > 0
       THEN [body |-> JsonOfSummary(StubSummary("get_story_summary_by_post_id", <<"id", p>>)),
             statusCode |-> 200]
       ELSE [body |-> ErrorBody("Story summary not found"), statusCode |-> 404]>>,
     <<"response", [body |-> ErrorBody("boom"), statusCode |-> 500]>>,
     <<"timeout">>}
        \cup InvokeExceptions

\* call g enters generate_summary(p, ...): existing_summary is what
\* get_story_summary_by_post_id returned, and a truthy one is returned at once
Lookup(g, p, e, now) ==
    /\ gen_pc[g] = "Idle"
    /\ gen_post' = [gen_post EXCEPT ![g] = p]
    /\ rows_at_lookup' = [rows_at_lookup EXCEPT ![g] = story_summaries[p]]
    /\ LET existing == get_story_summary(e, now)[2] IN
        /\ existing_summary' = [existing_summary EXCEPT ![g] = existing]
        /\ gen_pc' = [gen_pc EXCEPT ![g] =
                        IF existing # None THEN "Returned" ELSE "Generating"]
        /\ saved_summary' = [saved_summary EXCEPT ![g] =
                        IF existing # None THEN Return(existing) ELSE NoResult]
    /\ UNCHANGED <<clientVars, redditVars, publisherVars, backgroundVars,
                 processorVars, wrapperVars>>

\* self.client.generate_text raises: the except clause re-raises
GenerationFails(g) ==
    /\ gen_pc[g] = "Generating"
    /\ gen_pc' = [gen_pc EXCEPT ![g] = "Raised"]
    /\ saved_summary' = [saved_summary EXCEPT ![g] =
                            Raise("Exception", Str("generation failed"))]
    /\ UNCHANGED <<gen_post, rows_at_lookup, existing_summary>>
    /\ UNCHANGED <<clientVars, redditVars, publisherVars, backgroundVars,
                 processorVars, wrapperVars>>

\* what ends the wait of create_story_summary(SummaryData(p)), and whether
\* the data service committed the row: it answers 200 after its commit or 500
\* without one, or the wait times out while the target may still commit
CreateEvents(p) ==
    {<<<<"response",
         [body |-> JsonOfSummary(StubSummary("create_story_summary",
                                             <<"summary", SummaryData(p)>>)),
          statusCode |-> 200]>>, TRUE>>,
     <<<<"response", [body |-> ErrorBody("boom"), statusCode |-> 500]>>, FALSE>>,
     <<<<"timeout">>, TRUE>>,
     <<<<"timeout">>, FALSE>>}

\* the texts were generated: create_story_summary(summary_data), whose
\* StorySummary is returned and whose exception is re-raised
Create(g, e, committed, now) ==
    /\ gen_pc[g] = "Generating"
    /\ story_summaries' =
            IF committed THEN Commit(<<"summary", SummaryData(gen_post[g])>>)
            ELSE story_summaries
    /\ LET saved == create_story_summary(e, now) IN
        /\ gen_pc' = [gen_pc EXCEPT ![g] = IF IsRaise(saved) THEN "Raised" ELSE "Created"]
        /\ saved_summary' = [saved_summary EXCEPT ![g] = saved]
    /\ UNCHANGED <<gen_post, rows_at_lookup, existing_summary>>
    /\ UNCHANGED <<callVars, redditVars, publisherVars, backgroundVars,
                 processorVars, wrapperVars>>

NextSummarizer ==
    \E g \in 1..MaxCalls :
        \/ \E p \in PostIds : \E e \in LookupEvents(p) : \E now \in Times :
                Lookup(g, p, e, now)
        \/ GenerationFails(g)
        \/ \E ec \in CreateEvents(gen_post[g]) : \E now \in Times :
                Create(g, ec[1], ec[2], now)

SummarizerSpec == Init /\ [][NextSummarizer]_vars

\* ----------------------------------------------------------- PublisherService
\* PublisherRepository.create_article: a new row with the column defaults;
\* ids and creation times grow with every insert
CreateArticle ==
    /\ Len(published_articles) < MaxArticles
    /\ published_articles' =
            Append(published_articles,
                   [created_at |-> Len(published_articles) + 1, status |-> "draft",
                    wordpress_post_id |-> None, publish_attempts |-> 0])
    /\ publishing_errors' = Append(publishing_errors, 0)
    /\ wp_posts' = Append(wp_posts, 0)
    /\ UNCHANGED <<publish_calls, publish_call, publish_trace, publish_result>>
    /\ UNCHANGED <<clientVars, redditVars, summarizerVars, backgroundVars,
                 processorVars, wrapperVars>>

\* How the calls that publish_article makes end, as <<create, update, log>>:
\* wp_client.create_post returns or raises; repository.update_article
\* returns, raises before its flush changed the row, or raises after it (in
\* model_validate); repository.log_publishing_error returns or raises. "-" is
\* a call that is not reached.
Environments ==
    {<<"ok", "ok", "-">>,
     <<"raises", "-", "ok">>, <<"raises", "-", "raises">>,
     <<"ok", "raises", "ok">>, <<"ok", "raises", "raises">>,
     <<"ok", "raises after flush", "ok">>, <<"ok", "raises after flush", "raises">>}

\* the exception a failing call raises
ExceptionOf(name) ==
    CASE name = "create_post" -> Raise("Exception", Str("WordPress API Error"))
      [] name = "update_article" -> Raise("SQLAlchemyError", Str("update_article failed"))
      [] name = "log_publishing_error" ->
            Raise("SQLAlchemyError", Str("log_publishing_error failed"))

\* the PublishedArticle validated from row article_id
PublishedArticle(article_id, row) == <<"PublishedArticle", article_id, row>>

\* PublisherRepository.log_publishing_error on the tables
\* db = <<published_articles, publishing_errors, wp_posts>>: one more error
\* row, and update_article sets status "failed" and publish_attempts + 1
log_publishing_error(db, article_id) ==
    <<[db[1] EXCEPT ![article_id].status = "failed", ![article_id].publish_attempts = @ + 1],
      [db[2] EXCEPT ![article_id] = @ + 1],
      db[3]>>

\* PublisherService.publish_article(article_id, auto_publish) on the tables
\* db, its calls ending as env says: <<the tables after it, what it returns
\* or raises, the calls it made>>
publish_article(db, article_id, auto_publish, env) ==
    IF article_id \notin DOMAIN db[1]
    THEN <<db, Raise("ValueError", Str("Article not found")), <<>>>>
    ELSE
    LET article == db[1][article_id] IN
    IF article.status = "published"
    THEN <<db, Return(PublishedArticle(article_id, article)), <<>>>>
    ELSE
    LET created == env[1] = "ok"
        posted == IF created
                  THEN <<db[1], db[2], [db[3] EXCEPT ![article_id] = @ + 1]>>
                  ELSE db
        updated == [article EXCEPT
                        !.status = IF auto_publish THEN "published" ELSE "draft",
                        !.wordpress_post_id = <<"int", 10 * article_id + posted[3][article_id]>>]
        flushed == IF created /\ env[2] \in {"ok", "raises after flush"}
                   THEN <<[posted[1] EXCEPT ![article_id] = updated], posted[2], posted[3]>>
                   ELSE posted
        tried == IF created
                 THEN << <<"create_post", article_id, "ok">>,
                         <<"update_article", article_id, env[2]>> >>
                 ELSE << <<"create_post", article_id, "raises">> >>
    IN  IF created /\ env[2] = "ok"
        THEN <<flushed, Return(PublishedArticle(article_id, updated)), tried>>
        ELSE IF env[3] = "ok"
        THEN <<log_publishing_error(flushed, article_id),
               ExceptionOf(IF created THEN "update_article" ELSE "create_post"),
               Append(tried, <<"log_publishing_error", article_id, "ok">>)>>
        ELSE <<flushed, ExceptionOf("log_publishing_error"),
               Append(tried, <<"log_publishing_error", article_id, "raises">>)>>

\* the tables
Tables == <<published_articles, publishing_errors, wp_posts>>

\* a caller (the route, a background task) calls publish_article
Publish(article_id, auto_publish, env) ==
    /\ publish_calls < MaxPublishCalls
    /\ publish_calls' = publish_calls + 1
    /\ publish_call' =
            <<"publish_article", article_id, auto_publish,
              IF article_id \in DOMAIN published_articles
              THEN <<published_articles[article_id], publishing_errors[article_id]>>
              ELSE None>>
    /\ LET done == publish_article(Tables, article_id, auto_publish, env) IN
        /\ published_articles' = done[1][1]
        /\ publishing_errors' = done[1][2]
        /\ wp_posts' = done[1][3]
        /\ publish_result' = done[2]
        /\ publish_trace' = done[3]
    /\ UNCHANGED <<clientVars, redditVars, summarizerVars, backgroundVars,
                 processorVars, wrapperVars>>

\* the two conditions of the where clause of get_unpublished_articles
IsUnpublished(row) == row.status = "draft" /\ row.publish_attempts < 3

\* the ids in S, by ascending created_at
RECURSIVE OrderByCreatedAt(_, _)
OrderByCreatedAt(rows, S) ==
    IF S = {} THEN <<>>
    ELSE LET first == CHOOSE a \in S : \A b \in S : rows[a].created_at <= rows[b].created_at
         IN  <<first>> \o OrderByCreatedAt(rows, S \ {first})

\* PublisherRepository.get_unpublished_articles(limit) on the rows: the ids
\* of the rows it returns, in the order of the list
get_unpublished_articles(rows, limit) ==
    LET found == OrderByCreatedAt(rows, {a \in DOMAIN rows : IsUnpublished(rows[a])})
    IN  SubSeq(found, 1, IF Len(found) < limit THEN Len(found) ELSE limit)

\* loop that gives up at the first article whose publish_article raises
RECURSIVE process_until_failure(_, _, _, _, _)
process_until_failure(db, articles, auto_publish, envs, acc) ==
    IF articles = <<>> THEN <<db, Return(<<"list", acc[1]>>), acc[2]>>
    ELSE LET article_id == Head(articles)
             done == publish_article(db, article_id, auto_publish, envs[article_id])
         IN  IF IsRaise(done[2])
             THEN <<done[1], Return(<<"list", acc[1]>>),
                    Append(acc[2], <<"publish_article", article_id, "raises">>)>>
             ELSE process_until_failure(done[1], Tail(articles), auto_publish, envs,
                    <<Append(acc[1], done[2][2]),
                      Append(acc[2], <<"publish_article", article_id, "ok">>)>>)

\* the for loop of process_unpublished_articles over the selected articles:
\* publish_article on each, its result appended to processed_articles, its
\* exception caught and the loop continued; acc is <<processed_articles, the
\* calls made so far>>
RECURSIVE process_articles(_, _, _, _, _)
process_articles(db, articles, auto_publish, envs, acc) ==
    IF articles = <<>> THEN <<db, Return(<<"list", acc[1]>>), acc[2]>>
    ELSE LET article_id == Head(articles)
             done == publish_article(db, article_id, auto_publish, envs[article_id])
         IN  process_articles(done[1], Tail(articles), auto_publish, envs,
                <<IF IsRaise(done[2]) THEN acc[1] ELSE Append(acc[1], done[2][2]),
                  Append(acc[2], <<"publish_article", article_id,
                                   IF IsRaise(done[2]) THEN "raises" ELSE "ok">>)>>)

\* how the calls of one publish_article of a batch end
BatchEnvironments ==
    {<<"ok", "ok", "-">>, <<"raises", "-", "ok">>, <<"ok", "raises", "raises">>}

\* a caller calls process_unpublished_articles(batch_size, auto_publish);
\* envs[a] is how the calls of publish_article(a) end
ProcessUnpublished(batch_size, auto_publish, envs) ==
    /\ publish_calls = 0
    /\ publish_calls' = publish_calls + 1
    /\ publish_call' =
            <<"process_unpublished_articles", batch_size, auto_publish, published_articles>>
    /\ LET articles == get_unpublished_articles(published_articles, batch_size)
           done == process_articles(Tables, articles, auto_publish, envs, <<<<>>, <<>>>>)
       IN  /\ published_articles' = done[1][1]
           /\ publishing_errors' = done[1][2]
           /\ wp_posts' = done[1][3]
           /\ publish_result' = done[2]
           /\ publish_trace' = done[3]
    /\ UNCHANGED <<clientVars, redditVars, summarizerVars, backgroundVars,
                 processorVars, wrapperVars>>

NextPublisher ==
    \/ CreateArticle
    \/ \E article_id \in 1..MaxArticles : \E auto_publish \in BOOLEAN :
            \E env \in Environments : Publish(article_id, auto_publish, env)

PublisherSpec == Init /\ [][NextPublisher]_vars

\* The rows publish_article leaves behind, for the article created a-th:
\* a draft never submitted; a draft or a published article whose post was
\* created after any number of failed attempts; an article whose attempts
\* all failed in create_post. Each with the error rows and the posts that
\* go with it.
ArticleStates(a) ==
    {<<[created_at |-> a, status |-> "draft",
        wordpress_post_id |-> None, publish_attempts |-> 0], 0, 0>>}
    \cup {<<[created_at |-> a, status |-> st,
             wordpress_post_id |-> <<"int", 10 * a + 1>>, publish_attempts |-> k], k, 1>> :
                st \in {"draft", "published"}, k \in 0..MaxAttempts}
    \cup {<<[created_at |-> a, status |-> "failed",
             wordpress_post_id |-> None, publish_attempts |-> k], k, 0>> :
                k \in 1..MaxAttempts}

\* process_unpublished_articles is called on tables publish_article filled
InitBatch ==
    /\ InitReddit /\ InitSummarizer /\ InitBackground /\ InitClient
    /\ InitProcessor /\ InitWrapper
    /\ \E rows \in [1..MaxArticles -> UNION {ArticleStates(a) : a \in 1..MaxArticles}] :
            /\ \A a \in 1..MaxArticles : rows[a] \in ArticleStates(a)
            /\ published_articles = [a \in 1..MaxArticles |-> rows[a][1]]
            /\ publishing_errors = [a \in 1..MaxArticles |-> rows[a][2]]
            /\ wp_posts = [a \in 1..MaxArticles |-> rows[a][3]]
    /\ publish_calls = 0
    /\ publish_call = <<"none">>
    /\ publish_trace = <<>>
    /\ publish_result = NoResult

NextBatch ==
    \E batch_size \in 1..MaxArticles : \E auto_publish \in BOOLEAN :
        \E envs \in [DOMAIN published_articles -> BatchEnvironments] :
            ProcessUnpublished(batch_size, auto_publish, envs)

BatchSpec == InitBatch /\ [][NextBatch]_vars

\* ------------------------------------------ background_processor.lambda_handler
\* the record['body'] texts of the SQS records: a job for a post, a body
\* without post_id, and a body that is no JSON
RecordBodies ==
    {JsonDumps(Object([post_id |-> p, job_id |-> Str("job")])) : p \in PostIds}
        \cup {JsonDumps(Object([job_id |-> Str("job")])), Str("not json")}

\* the StorySummaryCreate that store_summary_in_database builds
JobSummary(job_id, post_id) ==
    [post_id |-> post_id, title |-> Str("Summary for Post"), summary |-> Str("s"),
     generated_story |-> Str("s"), model_used |-> Str("facebook/bart-large-cnn"),
     generation_metadata |-> Object([job_id |-> job_id])]

\* the answers of the data service to a create that stored nothing
FailedResponses ==
    LET a == <<"summary", JobSummary(Str("job"), 7)>> IN
    {r \in Responses("create_story_summary", a) : ~Committed("create_story_summary", a, r)}

\* How the processing of one record goes, as <<token, e, committed>>: whether
\* HUGGINGFACE_API_TOKEN is set, what ends the wait of create_story_summary
\* (<<"created", sc>> is the answer with status sc that carries the created
\* record), and whether the data service committed the row: it has when it
\* answers with the created record, it may have when the caller timed out
RecordEnvironments ==
    {<<FALSE, <<"timeout">>, FALSE>>}
        \cup {<<TRUE, <<"created", sc>>, TRUE>> : sc \in {200, 201}}
        \cup {<<TRUE, <<"response", r>>, FALSE>> : r \in FailedResponses}
        \cup {<<TRUE, <<"timeout">>, committed>> : committed \in BOOLEAN}
        \cup {<<TRUE, e, FALSE>> : e \in InvokeExceptions}

\* the body of the for loop of lambda_handler for one record on the table
\* story_summaries: json.loads, the two subscripts, and process_summary with
\* call_huggingface_api and store_summary_in_database, each of which
\* re-raises: <<the table after it, Return(None) or the exception, whether
\* the row was committed>>
process_record(table, body_text, env) ==
    IF ~IsJsonText(body_text)
    THEN <<table, Raise("JSONDecodeError", Str("Expecting value")), FALSE>>
    ELSE
    LET body == JsonLoads(body_text)[2] IN
    IF "job_id" \notin DOMAIN body THEN <<table, Raise("KeyError", Str("'job_id'")), FALSE>>
    ELSE IF "post_id" \notin DOMAIN body
    THEN <<table, Raise("KeyError", Str("'post_id'")), FALSE>>
    ELSE IF ~env[1]
    THEN <<table, Raise("Exception", Str("HUGGINGFACE_API_TOKEN not found")), FALSE>>
    ELSE
    LET a == <<"summary", JobSummary(body.job_id, body.post_id)>>
        built == BuildPayload("create_story_summary", a)
    IN  IF IsRaise(built) THEN <<table, built, FALSE>>
        ELSE LET e == IF env[2][1] = "created"
                      THEN <<"response",
                             [body |-> JsonOfSummary(StubSummary("create_story_summary", a)),
                              statusCode |-> env[2][2]]>>
                      ELSE env[2]
                 stored == create_story_summary(e, <<"datetime", 1>>)
             IN
             <<IF env[3] THEN [table EXCEPT ![body.post_id] = @ + 1] ELSE table,
               IF IsRaise(stored) THEN stored ELSE Return(None),
               env[3]>>

\* loop that logs the failure of a record and goes on with the next one
RECURSIVE process_records_skipping_failures(_, _, _, _)
process_records_skipping_failures(table, records, envs, trace) ==
    IF Len(trace) = Len(records)
    THEN <<table, trace,
           [body |-> JsonDumps(Object([message |-> Str("Processing completed")])),
            statusCode |-> 200]>>
    ELSE LET k == Len(trace) + 1
             done == process_record(table, records[k], envs[k])
         IN  process_records_skipping_failures(done[1], records, envs,
                                               Append(trace, <<done[2], done[3]>>))

\* lambda_handler from its for loop on: the records in order, the first
\* exception ending the loop in the except clause
RECURSIVE process_records(_, _, _, _)
process_records(table, records, envs, trace) ==
    IF Len(trace) = Len(records)
    THEN <<table, trace,
           [body |-> JsonDumps(Object([message |-> Str("Processing completed")])),
            statusCode |-> 200]>>
    ELSE LET k == Len(trace) + 1
             done == process_record(table, records[k], envs[k])
         IN  IF IsRaise(done[2])
             THEN <<done[1], Append(trace, <<done[2], done[3]>>),
                    [body |-> JsonDumps(Object([error |-> StrOfException(done[2])])),
                     statusCode |-> 500]>>
             ELSE process_records(done[1], records, envs,
                                  Append(trace, <<done[2], done[3]>>))

\* the Lambda runtime invokes lambda_handler with an event of n records
Invoke(records, envs) ==
    /\ handler_response = NoResult
    /\ sqs_records' = records
    /\ LET done == process_records(story_summaries, records, envs, <<>>) IN
        /\ story_summaries' = done[1]
        /\ handler_trace' = done[2]
        /\ handler_response' = Return(<<"dict", done[3]>>)
    /\ UNCHANGED <<callVars, redditVars, summarizerVars, publisherVars,
                 processorVars, wrapperVars>>

NextBackground ==
    \E n \in 0..MaxRecords : \E records \in [1..n -> RecordBodies] :
        \E envs \in [1..n -> RecordEnvironments] : Invoke(records, envs)

BackgroundSpec == Init /\ [][NextBackground]_vars

\* ------------------------------------------------- fetch_and_process_posts
\* A title or a url the filter looks into is the sequence of its characters;
\* normalized_score, a float that is a multiple of 0.5, is counted in halves.

\* FilterConfig's defaults
KEYWORDS ==
    << <<"p", "y", "t", "h", "o", "n">>,
       <<"p", "r", "o", "g", "r", "a", "m", "m", "i", "n", "g">>,
       <<"s", "o", "f", "t", "w", "a", "r", "e">>,
       <<"d", "e", "v", "e", "l", "o", "p", "m", "e", "n", "t">>,
       <<"t", "e", "c", "h">>, <<"c", "o", "d", "e">>,
       <<"c", "o", "d", "i", "n", "g">>,
       <<"d", "e", "v", "e", "l", "o", "p", "e", "r">>, <<"w", "e", "b">>,
       <<"a", "p", "i">>, <<"d", "a", "t", "a", "b", "a", "s", "e">>,
       <<"c", "l", "o", "u", "d">>, <<"g", "i", "t">>,
       <<"g", "i", "t", "h", "u", "b">>,
       <<"o", "p", "e", "n", "s", "o", "u", "r", "c", "e">>,
       <<"e", "n", "g", "i", "n", "e", "e", "r", "i", "n", "g">>,
       <<"c", "o", "m", "p", "u", "t", "e", "r">>,
       <<"s", "c", "i", "e", "n", "c", "e">>, <<"a", "p", "p">>,
       <<"a", "p", "p", "l", "i", "c", "a", "t", "i", "o", "n">>,
       <<"s", "y", "s", "t", "e", "m">>, <<"d", "a", "t", "a">>,
       <<"s", "e", "c", "u", "r", "i", "t", "y">>, <<"d", "e", "s", "i", "g", "n">>,
       <<"a", "r", "c", "h", "i", "t", "e", "c", "t", "u", "r", "e">>,
       <<"f", "r", "a", "m", "e", "w", "o", "r", "k">>,
       <<"l", "i", "b", "r", "a", "r", "y">>, <<"t", "o", "o", "l">>,
       <<"p", "l", "a", "t", "f", "o", "r", "m">>,
       <<"l", "a", "n", "g", "u", "a", "g", "e">>, <<"s", "e", "r", "v", "e", "r">>,
       <<"c", "l", "i", "e", "n", "t">>, <<"f", "r", "o", "n", "t", "e", "n", "d">>,
       <<"b", "a", "c", "k", "e", "n", "d">>,
       <<"f", "u", "l", "l", "s", "t", "a", "c", "k">>,
       <<"d", "e", "v", "o", "p", "s">>, <<"a", "i">>,
       <<"m", "a", "c", "h", "i", "n", "e">>,
       <<"l", "e", "a", "r", "n", "i", "n", "g">>,
       <<"a", "l", "g", "o", "r", "i", "t", "h", "m">>,
       <<"p", "e", "r", "f", "o", "r", "m", "a", "n", "c", "e">>,
       <<"o", "p", "t", "i", "m", "i", "z", "a", "t", "i", "o", "n">>,
       <<"t", "e", "s", "t", "i", "n", "g">>, <<"d", "e", "b", "u", "g">>,
       <<"r", "e", "l", "e", "a", "s", "e">>, <<"u", "p", "d", "a", "t", "e">>,
       <<"f", "e", "a", "t", "u", "r", "e">>, <<"f", "i", "x">>,
       <<"i", "s", "s", "u", "e">>, <<"b", "u", "g">> >>

MIN_NORMALIZED_SCORE == 0

NSFW_TAGS == << <<"n", "s", "f", "w">>, <<"n", "s", "f", "l">>, <<"1", "8", "+">> >>

MAX_TITLE_LENGTH == 500

MIN_COMMENTS == 0

UpperCase == <<"A", "B", "C", "D", "E", "F", "G", "H", "I", "J", "K", "L", "M", "N", "O", "P", "Q", "R", "S", "T", "U", "V", "W", "X", "Y", "Z">>

LowerCase == <<"a", "b", "c", "d", "e", "f", "g", "h", "i", "j", "k", "l", "m", "n", "o", "p", "q", "r", "s", "t", "u", "v", "w", "x", "y", "z">>

UpperCaseLetters == {UpperCase[k] : k \in 1..Len(UpperCase)}

\* str.lower()
lower(text) ==
    [i \in 1..Len(text) |->
        IF text[i] \in UpperCaseLetters
        THEN LowerCase[CHOOSE k \in 1..Len(UpperCase) : UpperCase[k] = text[i]]
        ELSE text[i]]

\* needle in text, on str
Contains(text, needle) ==
    \E i \in 0..(Len(text) - Len(needle)) : SubSeq(text, i + 1, i + Len(needle)) = needle

\* text.startswith(prefix)
StartsWith(text, prefix) ==
    Len(text) >= Len(prefix) /\ SubSeq(text, 1, Len(prefix)) = prefix

\* the HttpUrl field: an http or https scheme followed by a host
IsHttpUrl(url) ==
    \E scheme \in {<<"h", "t", "t", "p", ":", "/", "/">>, <<"h", "t", "t", "p", "s", ":", "/", "/">>} :
        StartsWith(url, scheme) /\ Len(url) > Len(scheme)

\* FilteredPost.from_reddit_post: the fields are copied, normalized_score is
\* score + comments * 0.5, and the model's validation rejects a url that is
\* no HttpUrl and a negative score, comments or normalized_score
from_reddit_post(post) ==
    IF ~IsHttpUrl(post.url) \/ post.score < 0 \/ post.comments < 0
       \/ 2 * post.score + post.comments < 0
    THEN Raise("ValidationError", Str("validation error for FilteredPost"))
    ELSE Return(<<"FilteredPost",
                  [title |-> post.title, url |-> post.url, score |-> post.score,
                   comments |-> post.comments,
                   normalized_score |-> 2 * post.score + post.comments]>>)

\* tag.lower() of every tag, and keyword.lower() of every keyword
LoweredTags == [k \in 1..Len(NSFW_TAGS) |-> lower(NSFW_TAGS[k])]

LoweredKeywords == [k \in 1..Len(KEYWORDS) |-> lower(KEYWORDS[k])]

_is_nsfw(post) ==
    LET title_lower == lower(post[2].title) IN
    \E k \in 1..Len(NSFW_TAGS) : Contains(title_lower, LoweredTags[k])

_meets_score_threshold(post) == post[2].normalized_score >= 2 * MIN_NORMALIZED_SCORE

_has_relevant_keywords(post) ==
    LET title_lower == lower(post[2].title) IN
    \E k \in 1..Len(KEYWORDS) : Contains(title_lower, LoweredKeywords[k])

\* PostFilter.is_valid_post: the five checks in the order of the code
is_valid_post(post) ==
    IF Len(post[2].title) > MAX_TITLE_LENGTH THEN FALSE
    ELSE IF _is_nsfw(post) THEN FALSE
    ELSE IF ~_meets_score_threshold(post) THEN FALSE
    ELSE IF post[2].comments < MIN_COMMENTS THEN FALSE
    ELSE IF ~_has_relevant_keywords(post) THEN FALSE
    ELSE TRUE

\* the for loop over raw_posts: a post whose conversion raises is skipped by
\* the except clause of the loop body, a post the filter rejects is not appended
RECURSIVE convert_and_filter(_, _)
convert_and_filter(raw_posts, filtered_posts) ==
    IF raw_posts = <<>> THEN filtered_posts
    ELSE LET filtered_post == from_reddit_post(Head(raw_posts)) IN
         convert_and_filter(
            Tail(raw_posts),
            IF IsRaise(filtered_post) THEN filtered_posts
            ELSE IF is_valid_post(filtered_post[2])
            THEN Append(filtered_posts, filtered_post[2])
            ELSE filtered_posts)

fetch_and_process_posts_returning_after_failed_save(fetched, e) ==
    IF IsRaise(fetched) THEN <<fetched, <<>>>>
    ELSE LET filtered_posts == convert_and_filter(fetched[2][2], <<>>) IN
         IF filtered_posts # <<>>
         THEN <<Return(<<"list", filtered_posts>>),
                << <<"save_posts", filtered_posts, save_posts(save_reddit_posts(e))>> >> >>
         ELSE <<Return(<<"list", filtered_posts>>), <<>>>>

\* PostProcessorService.fetch_and_process_posts, fetch_posts having handed it
\* fetched and the invoke of save_reddit_posts ending with e: what it returns
\* or raises, and the calls of save_posts it made with what each ended with.
\* Every except clause of the outer try raises what it caught.
fetch_and_process_posts(fetched, e) ==
    IF IsRaise(fetched) THEN <<fetched, <<>>>>
    ELSE LET filtered_posts == convert_and_filter(fetched[2][2], <<>>) IN
         IF filtered_posts # <<>>
         THEN <<process_and_store(filtered_posts, save_reddit_posts(e)),
                << <<"save_posts", filtered_posts, save_posts(save_reddit_posts(e))>> >> >>
         ELSE <<Return(<<"list", filtered_posts>>), <<>>>>

\* a title with keywords
RelevantTitle == <<"P", "y", "t", "h", "o", "n", " ", "A", "P", "I", " ", "r", "e", "l", "e", "a", "s", "e">>

\* a title with a keyword inside a word
SubstringTitle == <<"H", "a", "p", "p", "y", " ", "c", "a", "t">>

\* a title with a tag and a keyword
NsfwTitle == <<"N", "S", "F", "W", " ", "p", "y", "t", "h", "o", "n", " ", "t", "o", "o", "l">>

\* a title with no keyword
IrrelevantTitle == <<"M", "y", " ", "d", "o", "g">>

\* a title of MAX_TITLE_LENGTH + 1 characters that has a keyword
LongTitle == <<"p", "y", "t", "h", "o", "n">> \o [i \in 1..(MAX_TITLE_LENGTH - 5) |-> "a"]

Titles == {RelevantTitle, SubstringTitle, NsfwTitle, IrrelevantTitle, LongTitle}

PostUrl == <<"h", "t", "t", "p", "s", ":", "/", "/", "r", "e", "d", "d", ".", "i", "t", "/", "1">>

Permalink == <<"/", "r", "/", "p", "y", "t", "h", "o", "n", "/", "1">>

\* the RedditPost models fetch_posts may hand over: two the filter accepts,
\* three it rejects, two that do not convert
RedditPosts ==
    {[title |-> t, url |-> PostUrl, score |-> 3, comments |-> 1] : t \in Titles}
    \cup {[title |-> RelevantTitle, url |-> PostUrl, score |-> -1, comments |-> 1],
          [title |-> RelevantTitle, url |-> Permalink, score |-> 3, comments |-> 1]}

\* what FetcherService.fetch_posts hands over
Fetches ==
    {Raise("RedditFetchError", Str("Subreddit does not exist"))}
    \cup {Return(<<"list", posts>>) :
            posts \in UNION {[1..n -> RedditPosts] : n \in 0..MaxPosts}}

\* what the invoke of save_reddit_posts may end with
SaveEndings ==
    {<<"response", r>> : r \in Responses("save_reddit_posts", <<"posts", <<>>>>)}
    \cup InvokeExceptions

\* one call of fetch_and_process_posts
FetchAndProcess(fetched, e) ==
    /\ processed_posts = NoResult
    /\ fetched_posts' = fetched
    /\ LET done == fetch_and_process_posts(fetched, e) IN
        /\ processed_posts' = done[1]
        /\ saved_posts' = done[2]
    /\ UNCHANGED <<clientVars, redditVars, summarizerVars, publisherVars,
                   backgroundVars, wrapperVars>>

NextProcessor == \E fetched \in Fetches : \E e \in SaveEndings : FetchAndProcess(fetched, e)

ProcessorSpec == Init /\ [][NextProcessor]_vars

\* ---------------------------------------------------- lambda_handler_wrapper
\* d.get(key, default): d is a dict, or None, which has no attribute get
get(d, key, default) ==
    IF d = None
    THEN Raise("AttributeError", Str("'NoneType' object has no attribute 'get'"))
    ELSE Return(IF key \in DOMAIN d[2] THEN d[2][key] ELSE default)

EmptyDict == <<"dict", <<>>>>

\* the expressions of the `extra` dict of a logger call that read the event
\* and the context: event.get('requestContext', {}).get('http', {}).get(...)
\* and context.get_remaining_time_in_millis()
LogExtra(event, context) ==
    LET request_context == get(event, "requestContext", EmptyDict) IN
    IF IsRaise(request_context) THEN request_context
    ELSE LET http == get(request_context[2], "http", EmptyDict) IN
         IF IsRaise(http) THEN http
         ELSE IF IsRaise(get(http[2], "path", None)) THEN get(http[2], "path", None)
         ELSE IF context = None
         THEN Raise("AttributeError",
                    Str("'NoneType' object has no attribute 'get_remaining_time_in_millis'"))
         ELSE Return(None)

\* the classes `except Exception` catches: every exception class but the
\* ones that derive from BaseException only
IsException(type) == type \notin {"SystemExit", "KeyboardInterrupt", "GeneratorExit"}

\* the dict the except clause returns
ErrorResponse(e, request_id) ==
    Return(<<"dict",
             [body |-> JsonDumps(Object([error |-> Str("Internal server error"),
                                         message |-> e[3],
                                         error_type |-> Str(e[2])])),
              statusCode |-> 500,
              headers |-> <<"dict", [ContentType |-> Str("application/json"),
                                     XRequestID |-> request_id]>>]>>)

wrapper_raising_what_it_caught(event, context, handled, request_id) ==
    LET started == LogExtra(event, context)
        tried ==
            IF IsRaise(started) THEN started
            ELSE IF IsRaise(handled) THEN handled
            ELSE IF IsRaise(get(handled[2], "statusCode", None))
            THEN get(handled[2], "statusCode", None)
            ELSE handled
    IN  <<tried, IF IsRaise(started) THEN <<"not called">> ELSE handled>>

\* the wrapper lambda_handler_wrapper returns, invoked with event and context,
\* the wrapped handler doing `handled` if it is called and get_request_id()
\* giving request_id: what the wrapper returns or raises, and what the handler
\* did. The try block logs, calls the handler, logs response.get('statusCode')
\* and returns the response; the except clause logs and returns the error dict.
wrapper(event, context, handled, request_id) ==
    LET started == LogExtra(event, context)
        tried ==
            IF IsRaise(started) THEN started
            ELSE IF IsRaise(handled) THEN handled
            ELSE IF IsRaise(get(handled[2], "statusCode", None))
            THEN get(handled[2], "statusCode", None)
            ELSE handled
        outcome ==
            IF ~IsRaise(tried) THEN tried
            ELSE IF ~IsException(tried[2]) THEN tried
            ELSE IF IsRaise(LogExtra(event, context)) THEN LogExtra(event, context)
            ELSE ErrorResponse(tried, request_id)
    IN  <<outcome, IF IsRaise(started) THEN <<"not called">> ELSE handled>>

\* the events the function is invoked with: an HTTP API event, a REST API
\* event (no http key), a direct invocation (no requestContext), and two
\* events whose requestContext or http is null
LambdaEvents ==
    {<<"dict", [requestContext |->
                    <<"dict", [http |-> <<"dict", [method |-> Str("GET"),
                                                   path |-> Str("/health")]>>]>>]>>,
     <<"dict", [requestContext |-> <<"dict", [resourcePath |-> Str("/health")]>>]>>,
     EmptyDict,
     <<"dict", [requestContext |-> None]>>,
     <<"dict", [requestContext |-> <<"dict", [http |-> None]>>]>>}

\* the context: the runtime's LambdaContext, or None as a local caller passes
LambdaContexts == {<<"LambdaContext">>, None}

\* the responses a wrapped handler returns
HandlerResponses ==
    {<<"dict", [body |-> b, statusCode |-> sc]>> :
        b \in {JsonDumps(Object([status |-> Str("healthy")])), ErrorBody("boom")},
        sc \in {200, 201, 404, 500}}
    \cup {<<"dict", [body |-> Str("ok"), statusCode |-> sc,
                     headers |-> <<"dict", [ContentType |-> Str("text/plain")]>>]>> :
            sc \in {200, 404}}

\* what a wrapped handler does: it returns a response, returns None, raises
\* an exception, or exits the interpreter
HandlerOutcomes ==
    {Return(r) : r \in HandlerResponses}
    \cup {Return(None)}
    \cup {Raise(type, Str(m)) :
            type \in {"ValueError", "KeyError", "RuntimeError", "HTTPException"},
            m \in {"", "boom", "bad input"}}
    \cup {Raise("SystemExit", Str("1"))}

\* what get_request_id() gives: the id of the request, or a fresh uuid4
RequestIds == {Str("request-1"), Str("uuid-1"), Str("uuid-2")}

\* one invocation of the wrapper
InvokeWrapper(event, context, handled, request_id) ==
    /\ wrapper_outcome = NoResult
    /\ wrapper_event' = <<event, context>>
    /\ LET done == wrapper(event, context, handled, request_id) IN
        /\ wrapper_outcome' = done[1]
        /\ handler_outcome' = done[2]
    /\ UNCHANGED <<clientVars, redditVars, summarizerVars, publisherVars,
                   backgroundVars, processorVars>>

NextWrapper ==
    \E event \in LambdaEvents : \E context \in LambdaContexts :
        \E handled \in HandlerOutcomes : \E request_id \in RequestIds :
            InvokeWrapper(event, context, handled, request_id)

WrapperSpec == Init /\ [][NextWrapper]_vars

\* ------------------------------------------------------------------- claims
\* the state of the per-call state machine: the else branch of an adapter is
\* ClientErrored or ServerErrored by the class of the status it saw, the
\* except Exception clause is TransportFailed
CallState(t) ==
    CASE pc[t] = "Errored" ->
            IF ev[t][2].statusCode \in 400..499 THEN "ClientErrored" ELSE "ServerErrored"
      [] pc[t] = "Failed" -> "TransportFailed"
      [] OTHER -> pc[t]

PostDispatch ==
    {"Succeeded", "Absent", "ClientErrored", "ServerErrored", "TimedOut", "TransportFailed"}

Answered(t) == pc[t] \in Terminal /\ ev[t][1] = "response"

\* the error text of an error body {"error": m}
ErrorText(response_payload) == JsonLoads(response_payload.body)[2].error

\* C1: every adapter call moves Idle -> Built -> Dispatched -> one exit and
\* stays there (a call rejected before its payload was built never
\* dispatches and keeps its result): a built call ends in one of the six post-dispatch states, it
\* has a result exactly when it is in one of them, and from then on its
\* state, the event that ended it and its result never change, whatever the
\* substrate still does.
C1_OneTerminalOutcome ==
    /\ \A t \in Tasks : (pc[t] = "Built") ~> (pc[t] \in Terminal)
    /\ [](\A t \in Tasks :
            /\ (result[t] # NoResult) <=> (pc[t] \in Terminal \cup {"Rejected"})
            /\ pc[t] \in Terminal => CallState(t) \in PostDispatch)
    /\ [][\A t \in Tasks :
            /\ pc[t] = "Idle" => pc'[t] \in {"Idle", "Built", "Rejected"}
            /\ pc[t] = "Rejected" => pc'[t] = "Rejected" /\ result'[t] = result[t]
            /\ pc[t] = "Built" => pc'[t] \in {"Built", "Dispatched"}
            /\ pc[t] = "Dispatched" => pc'[t] \in {"Dispatched"} \cup Terminal
            /\ pc[t] \in Terminal =>
                    /\ pc'[t] = pc[t]
                    /\ ev'[t] = ev[t]
                    /\ result'[t] = result[t]]_vars

\* a timed-out call whose target answered afterwards still has its one outcome
C1_Witness ==
    \E t \in Tasks :
        /\ pc[t] = "TimedOut"
        /\ substrate[t] = "done"
        /\ result[t] = Raise("Exception", Str("Timeout calling Data Service Lambda"))

\* C2: a call that was still waiting when the caller-side timeout elapsed ends
\* in the Timeout outcome, for summarizer and reddit-service adapters alike.
C2_ElapsedTimeoutEndsInTimeout ==
    \A t \in Tasks : (pc[t] \in Terminal /\ elapsed[t]) => pc[t] = "TimedOut"

\* the call ended in ClientError, ServerError, Timeout, TransportFailure or
\* DecodeFailure
ErrorOutcome(t) ==
    \/ pc[t] \in {"TimedOut", "Failed"}
    \/ pc[t] = "Errored" /\ ev[t][2].statusCode \in (400..599) \ {404}

\* what a read adapter returns for an empty success or an absent record
EmptyResults(o) ==
    IF o = "get_reddit_posts"
    THEN {get_reddit_posts(<<"response",
                             [body |-> JsonDumps(Array(<<>>)), statusCode |-> 200]>>)}
    ELSE {get_story_summary(<<"response", [statusCode |-> 404]>>, <<"datetime", 1>>)}

\* C3: a read adapter whose call ended in an error status, a timeout, a
\* transport failure or a decode failure hands its caller a result that differs
\* from what it returns for a successful empty read and for Absent.
C3_NoErrorBecomesEmptySuccess ==
    \A t \in Tasks :
        (op[t] \in ReadOps /\ ErrorOutcome(t)) => result[t] \notin EmptyResults(op[t])

\* C4: a summary read adapter answered with statusCode 404 returns None and
\* does not raise, for every id.
C4_NotFoundReturnsNone ==
    \A t \in Tasks :
        (op[t] \in SummaryReadOps /\ Answered(t) /\ ev[t][2].statusCode = 404)
            => result[t] = Return(None)

C4_Witness ==
    \E t \in Tasks :
        /\ op[t] = "get_story_summary_by_post_id"
        /\ arg[t] = <<"id", 42>>
        /\ Answered(t)
        /\ ev[t][2].statusCode = 404
        /\ result[t] = Return(None)

\* C5: an adapter answered with a 5xx status and the error text m raises an
\* error whose message is exactly m.
C5_ServerErrorCarriesMessage ==
    \A t \in Tasks :
        (Answered(t) /\ ev[t][2].statusCode \in 500..599)
            => /\ IsRaise(result[t])
               /\ result[t][3] = ErrorText(ev[t][2])

\* C6: within one adapter call the substrate invoke is dispatched at most
\* once, whatever status, timeout or transport error ends the call.
C6_NoRetries ==
    \A t \in Tasks :
        /\ invokes[t] <= 1
        /\ pc[t] \in Terminal => invokes[t] = 1

C6_Witness ==
    \E t \in Tasks :
        /\ Answered(t)
        /\ ev[t][2].statusCode = 500
        /\ invokes[t] = 1

\* the wait of the call ended or went on past a timeout: the caller-side
\* bound elapsed, or the substrate gave up reading the answer
WaitTimedOut(t) ==
    \/ elapsed[t]
    \/ ev[t][1] = "timeout"
    \/ ev[t][1] = "exception" /\ ev[t][2] = "ReadTimeoutError"

\* what save_reddit_posts and save_posts report for a failure the target confirmed
ConfirmedFailures ==
    {save_reddit_posts(<<"response", [body |-> ErrorBody(m), statusCode |-> sc]>>) :
        m \in {"bad", "boom"}, sc \in {400, 500}}

\* C7: a save_reddit_posts of N > 0 posts whose wait timed out is reported as
\* the Timeout outcome: not as a failed save, and not in the way a failure the
\* target confirmed is reported to the caller of save_posts.
C7_BatchTimeoutIsIndeterminate ==
    \A t \in Tasks :
        (/\ op[t] = "save_reddit_posts"
         /\ Len(arg[t][2]) > 0
         /\ pc[t] \in Terminal
         /\ WaitTimedOut(t))
            => /\ pc[t] = "TimedOut"
               /\ ~(\E f \in ConfirmedFailures :
                        save_posts(f)[2] = save_posts(result[t])[2])

\* C8: a connection error of the substrate during save_reddit_posts makes the
\* adapter raise TransportFailure and the route fetch_and_process_posts that
\* issued the save answer with status 502.
C8_TransportFailureGives502 ==
    \A t \in Tasks :
        (/\ op[t] = "save_reddit_posts"
         /\ Len(arg[t][2]) > 0
         /\ pc[t] = "Failed"
         /\ ev[t][2] = "EndpointConnectionError")
            => /\ IsRaise(result[t])
               /\ route_status(process_and_store(arg[t][2], result[t])) = 502

\* what adapter o hands its caller when the target answers with an error
\* status, and when the caller-side timeout ends the wait
ErrorAndTimeoutResults(o, a) ==
    {Adapter(o, <<"response", r>>, <<"datetime", 1>>) :
        r \in {x \in Responses(o, a) : x.statusCode \in 400..599}}
    \cup (IF HasCallerTimeout(o)
          THEN {Adapter(o, <<"timeout">>, <<"datetime", 1>>)} ELSE {})

\* C9: what an adapter hands its caller after a dispatch failure differs from
\* what it hands over after a 4xx or 5xx answer and after a timeout.
C9_TransportFailureDistinct ==
    \A t \in Tasks :
        (pc[t] = "Failed" /\ ev[t][1] = "exception")
            => result[t] \notin ErrorAndTimeoutResults(op[t], arg[t])

SummaryOps == {"create_story_summary"} \cup SummaryReadOps

C11_WriteTimeoutIndeterminate ==
    /\ [](\A c \in Calls :
            (op[c] = "create_story_summary" /\ pc[c] = "TimedOut")
                => result[c] = Raise("Exception", Str("Timeout calling Data Service Lambda")))
    /\ [][/\ \A p \in PostIds : story_summaries'[p] >= story_summaries[p]
          /\ \A c \in Calls :
                (/\ op[c] = "create_story_summary"
                 /\ pc[c] = "Dispatched"
                 /\ pc'[c] = "Succeeded")
                    => story_summaries'[arg[c][2].post_id]
                            = story_summaries[arg[c][2].post_id] + 1]_vars

\* the first create timed out and its row was committed; the retry succeeded
C11_Witness ==
    /\ op[1] = "create_story_summary"
    /\ pc[1] = "TimedOut"
    /\ substrate[1] = "done"
    /\ op[2] = "create_story_summary"
    /\ arg[2] = arg[1]
    /\ pc[2] = "Succeeded"
    /\ story_summaries[arg[1][2].post_id] = 2

\* C12: an adapter answered with any status in 200..299 and a well-formed
\* body ends in Success, for 201 as for 200.
C12_Every2xxIsSuccess ==
    \A t \in Tasks :
        (/\ Answered(t)
         /\ ev[t][2].statusCode \in 200..299
         /\ "body" \in DOMAIN ev[t][2]
         /\ ev[t][2].body \in ValidBodies(op[t], arg[t]))
            => pc[t] = "Succeeded"

\* the adapters that decode the body of a success answer into a result
DecodingOps == SummaryOps \cup {"get_reddit_posts"}

\* the body of the answer is missing, is not JSON text, or is JSON of another
\* shape than the adapter's result
Undecodable(o, response_payload, now) ==
    \/ ~("body" \in DOMAIN response_payload)
    \/ ~IsJsonText(response_payload.body)
    \/ /\ o \in SummaryOps
       /\ IsRaise(StorySummary(JsonLoads(response_payload.body), now))
    \/ /\ o = "get_reddit_posts"
       /\ \/ JsonLoads(response_payload.body)[1] # "array"
          \/ IsRaise(DecodePosts(JsonLoads(response_payload.body)[2]))

\* C13: an adapter answered with statusCode 200 and a body it cannot decode
\* into its result raises to its caller; it returns no value (no empty list,
\* no None) in place of the undecodable body.
C13_UndecodableBodyIsDecodeFailure ==
    \A t \in Tasks :
        (/\ op[t] \in DecodingOps
         /\ Answered(t)
         /\ ev[t][2].statusCode = 200
         /\ Undecodable(op[t], ev[t][2], <<"datetime", 1>>))
            => IsRaise(result[t])

\* C14: an adapter answered with a status in 400..499 other than 404 and the
\* error text m raises an error whose message is exactly m, and that differs
\* from what it hands over for a 5xx answer with the same body.
C14_ClientErrorCarriesMessage ==
    \A t \in Tasks :
        (Answered(t) /\ ev[t][2].statusCode \in (400..499) \ {404})
            => /\ IsRaise(result[t])
               /\ result[t][3] = ErrorText(ev[t][2])
               /\ result[t] # Adapter(op[t],
                                      <<"response", [ev[t][2] EXCEPT !.statusCode = 500]>>,
                                      <<"datetime", 1>>)

\* C15: the summarizer route GET /summary/{post_id} answers with a 404-class
\* status when get_story_summary_by_post_id ended Absent, and with 502 or 504
\* when it ended in Timeout or TransportFailure.
C15_RouteTranslatesByClass ==
    \A t \in Tasks :
        (op[t] = "get_story_summary_by_post_id" /\ pc[t] \in Terminal)
            => /\ pc[t] = "Absent" => get_summary(result[t]) \in 400..499
               /\ (pc[t] = "TimedOut" \/ (pc[t] = "Failed" /\ ev[t][1] = "exception"))
                    => get_summary(result[t]) \in {502, 504}

\* the path parameters of a payload, as the mapping a template is filled from
PathParams(envelope) ==
    IF envelope.pathParameters = None THEN <<>> ELSE envelope.pathParameters[2]

\* C16: the httpMethod and path of every payload an adapter built are the
\* method and the instantiated path template of the data-service route that
\* serves the operation, that route is registered and matches the payload,
\* and the query parameters are in queryStringParameters, not in the path.
C16_EnvelopeAgreesWithRouter ==
    \A t \in Tasks :
        payload[t] # NoPayload =>
            LET route == RouteOf(op[t])
                envelope == payload[t][2]
            IN  /\ route \in Routes
                /\ SameText(envelope.httpMethod, Str(route.method))
                /\ SameText(envelope.path,
                            <<"str", Substitute(route.template[2], PathParams(envelope))>>)
                /\ RouteMatches(route, envelope.httpMethod, envelope.path)
                /\ op[t] = "get_reddit_posts" =>
                        /\ envelope.queryStringParameters # None
                        /\ envelope.queryStringParameters[2].limit = StrOfInt(arg[t][2].limit)

\* the state one call keeps: its position, its locals and its result
OwnState(c) ==
    <<pc[c], op[c], arg[c], invokes[c], substrate[c], elapsed[c], ev[c],
      result[c], payload[c]>>

\* C17: calls are safe under concurrency: every step writes the state of one
\* call only, whatever the other calls in flight are doing, and the payload
\* and the result of a call are the functions of its own input and of the
\* event that ended its own wait.  (The table story_summaries is the data
\* service's, not this layer's, and no adapter result is computed from it.)
C17_CallsDoNotInterfere ==
    /\ [][\A c1, c2 \in Calls :
            (OwnState(c1)' # OwnState(c1) /\ OwnState(c2)' # OwnState(c2)) => c1 = c2]_vars
    /\ [](\A c \in Calls :
            /\ payload[c] # NoPayload => payload[c] = BuildPayload(op[c], arg[c])[2]
            /\ pc[c] \in Terminal =>
                    \E now \in Times : result[c] = Adapter(op[c], ev[c], now))

\* one call has its answer while another call of the same adapter is in flight
C17_Witness ==
    /\ op[1] = "create_story_summary"
    /\ op[2] = "create_story_summary"
    /\ pc[1] = "Dispatched"
    /\ pc[2] = "Succeeded"
    /\ result[1] = NoResult

C19_PathParametersMatchTemplate ==
    \A t \in Tasks :
        op[t] \in SummaryReadOps =>
            /\ payload[t] # NoPayload =>
                    LET envelope == payload[t][2] IN
                    /\ DOMAIN envelope.pathParameters[2] = Placeholders(envelope.resource)
                    /\ SameText(envelope.path,
                                <<"str", Substitute(envelope.resource[2],
                                                    envelope.pathParameters[2])>>)
            /\ ~Binds(arg[t]) =>
                    /\ pc[t] = "Rejected"
                    /\ IsRaise(result[t])
                    /\ payload[t] = NoPayload
                    /\ invokes[t] = 0

C19_Witness ==
    \E t \in Tasks :
        /\ op[t] = "get_story_summary_by_id"
        /\ arg[t] = <<"missing">>
        /\ pc[t] = "Rejected"
        /\ invokes[t] = 0

\* a payload with its generated request id blanked
WithoutRequestId(envelope) ==
    [envelope[2] EXCEPT !.requestContext =
        <<"dict", [envelope[2].requestContext[2] EXCEPT !.requestId = None]>>]

IsClientError(b) == b[1] = "status" /\ b[2] \in 400..499 /\ b[2] # 429

\* C21: _make_request_with_retry does not retry client errors: once the server
\* answered a request with a 4xx status other than 429, that request is the
\* only one made and the method has raised the error to its caller.
C21_ClientErrorsNotRetried ==
    \A i \in 1..Len(served) :
        IsClientError(served[i])
            => /\ Len(served) = 1
               /\ IsRaise(response)
               /\ response[2] = "HTTPError"

\* the last attempt that ended with an exception, or 0 when none did
LastFailed ==
    LET failed == {i \in 1..Len(served) :
                        /\ ~Continues(served[i], i - 1)
                        /\ RaisedInAttempt(served[i], i - 1) # None}
    IN  IF failed = {} THEN 0 ELSE CHOOSE i \in failed : \A j \in failed : j <= i

RequestErrors == {"HTTPError", "ConnectionError", "Timeout"}

\* C22: _make_request_with_retry makes at most max_retries + 1 requests and
\* has ended once it made that many; it ends by returning a response or by
\* raising the exception of the last failed attempt; and when every attempt
\* was answered with 429 it raises a request error.
C22_BoundedAttemptsRaiseLastFailure ==
    /\ Len(served) <= max_retries + 1
    /\ Len(served) = max_retries + 1 => response # NoResult
    /\ response # NoResult =>
            \/ response = Return(served[Len(served)])
            \/ /\ IsRaise(response)
               /\ LastFailed > 0
               /\ response = RaisedInAttempt(served[LastFailed], LastFailed - 1)
    /\ (response # NoResult /\ \A i \in 1..Len(served) : served[i] = <<"status", 429>>)
            => IsRaise(response) /\ response[2] \in RequestErrors

\* C23: the data service holds at most one summary per post_id, and a call of
\* generate_summary whose lookup was served while a summary of its post
\* existed returns a summary of that post and creates none.
C23_AtMostOneSummaryPerPost ==
    /\ \A p \in PostIds : story_summaries[p] <= 1
    /\ \A g \in 1..MaxCalls :
            (gen_pc[g] # "Idle" /\ rows_at_lookup[g] > 0)
                => /\ gen_pc[g] = "Returned"
                   /\ saved_summary[g][2][2].post_id = gen_post[g]

\* the last call was publish_article on an article that exists
PublishedExisting == publish_call[1] = "publish_article" /\ publish_call[4] # None

\* the calls of the last call that are calls of name
TraceOf(name) == {i \in 1..Len(publish_trace) : publish_trace[i][1] = name}

\* C24: WordPress holds at most one post per article, and a call of
\* publish_article on an article that already carries a wordpress_post_id or
\* the status "published" returns that article without calling create_post.
C24_SubmittedAtMostOnce ==
    /\ \A a \in DOMAIN wp_posts : wp_posts[a] <= 1
    /\ PublishedExisting =>
            LET before == publish_call[4][1] IN
            (before.wordpress_post_id # None \/ before.status = "published")
                => /\ TraceOf("create_post") = {}
                   /\ publish_result = Return(PublishedArticle(publish_call[2], before))

\* C25: a call of publish_article in which create_post or update_article
\* raised leaves the article with status "failed" and one more publish
\* attempt, adds one publishing-error row and raises that call's exception;
\* a call in which both returned leaves publish_attempts as it was and the
\* status "published" when auto_publish is true and "draft" otherwise.
C25_FailureIsRecordedAndRaised ==
    (PublishedExisting /\ publish_call[4][1].status # "published") =>
        LET a == publish_call[2]
            before == publish_call[4][1]
            failed == {i \in 1..Len(publish_trace) :
                            /\ publish_trace[i][1] \in {"create_post", "update_article"}
                            /\ publish_trace[i][3] # "ok"}
        IN  IF failed # {}
            THEN /\ published_articles[a].status = "failed"
                 /\ published_articles[a].publish_attempts = before.publish_attempts + 1
                 /\ publishing_errors[a] = publish_call[4][2] + 1
                 /\ \A i \in failed : publish_result = ExceptionOf(publish_trace[i][1])
            ELSE /\ published_articles[a].publish_attempts = before.publish_attempts
                 /\ published_articles[a].status =
                        IF publish_call[3] THEN "published" ELSE "draft"

\* the call of the batch's trace ended without raising
Returned(call) == call[3] = "ok"

\* C26: a call of process_unpublished_articles passes to publish_article only
\* articles that were drafts with fewer than 3 attempts when it was called, at
\* most batch_size of them, in ascending creation order; it goes on after an
\* article that raised, so that it passes as many articles as batch_size and
\* the table allow; and it returns the articles whose publish_article
\* returned, in the order in which they were processed.
C26_BatchProcessesUnpublished ==
    publish_call[1] = "process_unpublished_articles" =>
        LET batch_size == publish_call[2]
            before == publish_call[4]
            unpublished == {a \in DOMAIN before :
                                /\ before[a].status = "draft"
                                /\ before[a].publish_attempts < 3}
            passed == [i \in 1..Len(publish_trace) |-> publish_trace[i][2]]
            returned == SelectSeq(publish_trace, Returned)
        IN  /\ \A i \in 1..Len(passed) : passed[i] \in unpublished
            /\ Len(passed) <= batch_size
            /\ \A i, j \in 1..Len(passed) :
                    i < j => before[passed[i]].created_at < before[passed[j]].created_at
            /\ Len(passed) = IF Cardinality(unpublished) < batch_size
                             THEN Cardinality(unpublished) ELSE batch_size
            /\ publish_result[1] = "return"
            /\ Len(publish_result[2][2]) = Len(returned)
            /\ \A i \in 1..Len(returned) : publish_result[2][2][i][2] = returned[i][2]

\* a batch in which one article raised and a later one was published
C26_Witness ==
    /\ publish_call[1] = "process_unpublished_articles"
    /\ \E i, j \in 1..Len(publish_trace) :
            /\ i < j
            /\ publish_trace[i][3] = "raises"
            /\ publish_trace[j][3] = "ok"

\* the records of the handler's trace whose row the data service committed
\* for post p
StoredFor(p) ==
    {k \in 1..Len(handler_trace) :
        /\ handler_trace[k][2]
        /\ JsonLoads(sqs_records[k])[2].post_id = p}

\* C27: lambda_handler returns statusCode 200 only when it processed every
\* record and create_story_summary stored the summary of each; when the
\* processing of record k raised, it returns statusCode 500 with the text of
\* that exception, k is the last record it processed, and the table holds
\* every row that was committed for the records up to k.
C27_HandlerStopsAtFirstFailure ==
    handler_response # NoResult =>
        LET returned == handler_response[2][2]
            failed == {k \in 1..Len(handler_trace) : IsRaise(handler_trace[k][1])}
        IN  /\ returned.statusCode = 200 =>
                    /\ Len(handler_trace) = Len(sqs_records)
                    /\ \A k \in 1..Len(handler_trace) :
                            ~IsRaise(handler_trace[k][1]) /\ handler_trace[k][2]
            /\ \A k \in failed :
                    /\ returned.statusCode = 500
                    /\ returned.body =
                            JsonDumps(Object([error |-> StrOfException(handler_trace[k][1])]))
                    /\ Len(handler_trace) = k
            /\ \A p \in PostIds : story_summaries[p] = Cardinality(StoredFor(p))

\* the second record of an event failed after the summary of the first was
\* stored
C27_Witness ==
    /\ handler_response # NoResult
    /\ Len(sqs_records) = 2
    /\ Len(handler_trace) = 2
    /\ ~IsRaise(handler_trace[1][1]) /\ handler_trace[1][2]
    /\ IsRaise(handler_trace[2][1])
    /\ handler_response[2][2].statusCode = 500

\* the fetched posts that convert to FilteredPost and that is_valid_post
\* accepts, converted, in fetch order
RelevantPosts(raw_posts) ==
    LET kept == SelectSeq(raw_posts,
                          LAMBDA post : /\ ~IsRaise(from_reddit_post(post))
                                        /\ is_valid_post(from_reddit_post(post)[2]))
    IN  [i \in 1..Len(kept) |-> from_reddit_post(kept[i])[2]]

\* C28: a call of fetch_and_process_posts whose fetch returned posts calls
\* save_posts exactly once, with the fetched posts that convert and that
\* is_valid_post accepts in fetch order, when there is at least one such post,
\* and never when there is none; it returns exactly that list, unless
\* save_posts raised, and then it raises DatabaseError.
C28_ReturnsTheValidPostsItSaved ==
    (processed_posts # NoResult /\ ~IsRaise(fetched_posts)) =>
        LET relevant == RelevantPosts(fetched_posts[2][2]) IN
        /\ Len(saved_posts) = IF relevant = <<>> THEN 0 ELSE 1
        /\ \A k \in 1..Len(saved_posts) : saved_posts[k][2] = relevant
        /\ IF \E k \in 1..Len(saved_posts) : IsRaise(saved_posts[k][3])
           THEN IsRaise(processed_posts) /\ processed_posts[2] = "DatabaseError"
           ELSE processed_posts = Return(<<"list", relevant>>)

\* a fetch of several posts of which some were dropped and some kept, and the
\* save of the kept ones failed: the call raised DatabaseError
C28_Witness ==
    /\ processed_posts # NoResult
    /\ ~IsRaise(fetched_posts)
    /\ Len(saved_posts) = 1
    /\ Len(saved_posts[1][2]) >= 1
    /\ Len(saved_posts[1][2]) < Len(fetched_posts[2][2])
    /\ IsRaise(saved_posts[1][3])
    /\ IsRaise(processed_posts)
    /\ processed_posts[2] = "DatabaseError"

\* C29: an invocation of the wrapper that reached the wrapped handler returns
\* the handler's response unchanged when the handler returned one, and raises
\* nothing when the handler failed, that is raised an exception that
\* `except Exception` names: it then returns a dict with statusCode 500, a
\* Content-Type header and a body of JSON text whose error_type and message are
\* the class name and the text of the exception.
C29_WrapperTurnsFailuresInto500 ==
    (wrapper_outcome # NoResult /\ handler_outcome # <<"not called">>) =>
        /\ (~IsRaise(handler_outcome) /\ handler_outcome[2] # None) =>
                wrapper_outcome = handler_outcome
        /\ (IsRaise(handler_outcome) /\ IsException(handler_outcome[2])) =>
                /\ ~IsRaise(wrapper_outcome)
                /\ wrapper_outcome[2][1] = "dict"
                /\ wrapper_outcome[2][2].statusCode = 500
                /\ "ContentType" \in DOMAIN wrapper_outcome[2][2].headers[2]
                /\ IsJsonText(wrapper_outcome[2][2].body)
                /\ JsonLoads(wrapper_outcome[2][2].body)[2].error_type
                        = Str(handler_outcome[2])
                /\ JsonLoads(wrapper_outcome[2][2].body)[2].message = handler_outcome[3]

\* the wrapped handler raised an exception and the wrapper returned the 500 dict
C29_Witness ==
    /\ wrapper_outcome # NoResult
    /\ handler_outcome # <<"not called">>
    /\ IsRaise(handler_outcome)
    /\ handler_outcome[2] = "ValueError"
    /\ ~IsRaise(wrapper_outcome)
    /\ wrapper_outcome[2][2].statusCode = 500

====
